---------------------------- MODULE Spec2Model ----------------------------
(***************************************************************************)
(* A model of the secure filesystem iterator of truenas_pyos               *)
(* (FilesystemIterator: create_filesystem_iterator, __next__, skip,        *)
(* dir_stack, dealloc) over a fixed directory tree.                        *)
(*                                                                         *)
(* One call of __next__ is a sequence of steps: Next_Begin, then one step  *)
(* per turn of the main loop (a readdir, and for an entry that survives    *)
(* the dot and cookie tests one call of process_next_entry with the        *)
(* switch that follows it), until the call returns (pc = "idle").          *)
(*                                                                         *)
(* Absolute paths are represented by the tree node they denote: the tree   *)
(* does not change during a run, so "%s/%s" of a directory's path and an   *)
(* entry name is the lookup of that name in that directory (PathJoin).     *)
(* File descriptors are identities of open file descriptions (a fresh      *)
(* number for every open/dup), so a closed descriptor is never confused    *)
(* with a later one that reuses its number.                                *)
(***************************************************************************)
EXTENDS Integers, Sequences, FiniteSets, TLC

VARIABLES
    fs,                     \* which tree the run is on: "small" or "chain"
    pc,                     \* "idle", "loop", "entry", "dead", "aborted"
    dir_stack,              \* self->dir_stack[0 .. cur_depth-1]
    last,                   \* self->last (iter_entry_t)
    skip_next_recursion,    \* self->skip_next_recursion
    cookies,                \* self->cookies (<<>> is NULL); cookies[k+1] is C's cookies[k]
    restoring_from_cookie,  \* self->restoring_from_cookie
    state,                  \* self->state (iter_state_t)
    direntp,                \* the dirent the current loop turn is processing
    result,                 \* what the last completed __next__ returned or raised
    skip_ret,               \* what the last skip() returned or raised since the last __next__
    openFds,                \* the descriptors this iterator opened that are still open
    nextFd,                 \* next fresh descriptor identity
    faults,                 \* injected kernel/runtime failures so far
    history,                \* the entries yielded by this iterator, in order
    trace,                  \* the loop turns of the current (or last) __next__ call
    gen,                    \* "fresh", "resumed" (genuine snapshot), "arbitrary" (any snapshot)
    snap,                   \* the dir_stack snapshot the iterator was built with
    skipped,                \* directories on which skip() was called right after their yield
    raised,                 \* a __next__ of this iterator raised something other than StopIteration
    reporting_cb_increment, \* self->reporting_cb_increment
    reporting_cb,           \* self->reporting_cb is not NULL
    initial,                \* the cnt and cnt_bytes the caller supplied
    cb_log,                 \* the calls of the reporting callback, in order
    first_raise,            \* the first step that raised: what, and after how many yields
    aces_arg,               \* the list of NFS4Ace objects given to NFS4ACL.from_aces
    acl,                    \* the NFS4ACL built: how it was built and its data (bytes)
    inherited,              \* what generate_inherited_acl of it returned or raised
    valid,                  \* the last call of nfs4acl_valid: fd, data and what it returned
    paces_arg,              \* the list of POSIXAce objects given to POSIXACL.from_aces
    pacl,                   \* the POSIXACL built: how it was built, access_data, default_data
    pinherited,             \* what generate_inherited_acl of it returned or raised
    pvalid,                 \* the last call of posixacl_valid: fd and what it returned
    xattr,                  \* what fgetxattr answers on the fd, per xattr name
    acl_out,                \* the last call of do_fgetacl: *out and what it returned
    store,                  \* the POSIX ACL xattrs the fd of do_fsetacl_posix has
    fsetacl_call,           \* the last call of do_fsetacl_posix: arguments, kernel answers, result
    fhandle,                \* a py_fhandle_t: mount_id, unique_mount_id
    open_call,              \* the last call of py_fhandle_open: mount fd, kernel answers, result
    mount_iter,             \* a MountIterator: req.param, mnt_ids, batch_count, current_idx
    mount_args,             \* ghost: the arguments the MountIterator was created with
    requests,               \* ghost: the listmount requests issued so far
    mount_res               \* what the last mount_iter_next returned

iter_vars == <<fs, pc, dir_stack, last, skip_next_recursion, cookies,
          restoring_from_cookie, state, direntp, result, skip_ret, openFds,
          nextFd, faults, history, trace, gen, snap, skipped, raised,
          reporting_cb_increment, reporting_cb, initial, cb_log, first_raise>>

nfs4_vars == <<aces_arg, acl, inherited, valid>>

posix_vars == <<paces_arg, pacl, pinherited, pvalid>>

fgetacl_vars == <<xattr, acl_out>>

fsetacl_vars == <<store, fsetacl_call>>

\* The state of the operations that only wrap system calls
fhandle_vars == <<fhandle, open_call>>

mount_vars == <<mount_iter, mount_args, requests, mount_res>>

sys_vars == <<fsetacl_vars, fhandle_vars, mount_vars>>

acl_vars == <<nfs4_vars, posix_vars, fgetacl_vars, sys_vars>>

vars == <<iter_vars, acl_vars>>

-----------------------------------------------------------------------------
(* Program constants and model bounds *)

MAX_DEPTH == 2048

\* Injected failures (errno other than ELOOP/EXDEV, EINTR, allocation
\* failures) per run.
MaxFaults == 1

-----------------------------------------------------------------------------
(* NFSv4 ACLs: the XDR blob, from_aces and generate_inherited_acl *)

\* ACLs built from more ACEs than this are not explored
MaxAces == 3

NFS4_HDR_SZ == 8
NFS4_ACE_SZ == 20
NFS4_HDR_WORDS == 2
NFS4_ACE_WORDS == 5

NFS4_ACL_WHO_NAMED == 0
NFS4_ACL_WHO_OWNER == 1
NFS4_ACL_WHO_GROUP == 2
NFS4_ACL_WHO_EVERYONE == 3

NFS4_ACE_ACCESS_ALLOWED_ACE_TYPE == 0
NFS4_ACE_ACCESS_DENIED_ACE_TYPE == 1
NFS4_ACE_SYSTEM_AUDIT_ACE_TYPE == 2

NFS4_ACE_READ_DATA == 1
NFS4_ACE_WRITE_DATA == 2
NFS4_ACE_WRITE_OWNER == 524288

NFS4_ACE_FILE_INHERIT_ACE == 1
NFS4_ACE_DIRECTORY_INHERIT_ACE == 2
NFS4_ACE_NO_PROPAGATE_INHERIT_ACE == 4
NFS4_ACE_INHERIT_ONLY_ACE == 8
NFS4_ACE_SUCCESSFUL_ACCESS_ACE_FLAG == 16
NFS4_ACE_IDENTIFIER_GROUP == 64
NFS4_ACE_INHERITED_ACE == 128

ACL_AUTO_INHERIT == 1
NFS4_ACL_IS_DIR == 131072

RECURSIVE BitAnd(_, _)
\* x & y
BitAnd(x, y) ==
    IF x = 0 \/ y = 0 THEN 0
    ELSE (x % 2) * (y % 2) + 2 * BitAnd(x \div 2, y \div 2)

\* x | y
BitOr(x, y) == x + y - BitAnd(x, y)

\* x & ~m
BitClear(x, m) == x - BitAnd(x, m)

NFS4_ACE_INHERIT_MASK ==
    BitOr(BitOr(NFS4_ACE_FILE_INHERIT_ACE, NFS4_ACE_DIRECTORY_INHERIT_ACE),
          BitOr(NFS4_ACE_NO_PROPAGATE_INHERIT_ACE, NFS4_ACE_INHERIT_ONLY_ACE))

\* (uint32_t)v: v modulo 2^32, put together from its two 16-bit halves
Uint32(v) == ((v \div 65536) % 65536) * 65536 + (v % 65536)

\* htobe32(w): the four bytes of the word, most significant first
htobe32(w) ==
    << (w \div 16777216) % 256, (w \div 65536) % 256, (w \div 256) % 256, w % 256 >>

\* be32toh of the word number k (from 0) of the blob
be32toh(data, k) ==
    data[4 * k + 1] * 16777216 + data[4 * k + 2] * 65536
        + data[4 * k + 3] * 256 + data[4 * k + 4]

\* An NFS4Ace object
NFS4Ace(ace_type, ace_flags, access_mask, who_type, who_id) ==
    [ace_type |-> ace_type, ace_flags |-> ace_flags, access_mask |-> access_mask,
     who_type |-> who_type, who_id |-> who_id]

\* The ACEs the lists are made of: every bucket of the canonical order twice
\* or more, every combination of inherit flags the inheritance rules tell
\* apart, named and special principals
AceDomain ==
    { NFS4Ace(NFS4_ACE_ACCESS_ALLOWED_ACE_TYPE, 0,
              NFS4_ACE_READ_DATA, NFS4_ACL_WHO_OWNER, -1),
      NFS4Ace(NFS4_ACE_ACCESS_DENIED_ACE_TYPE, 0,
              NFS4_ACE_WRITE_OWNER, NFS4_ACL_WHO_EVERYONE, -1),
      NFS4Ace(NFS4_ACE_ACCESS_DENIED_ACE_TYPE,
              BitOr(BitOr(NFS4_ACE_FILE_INHERIT_ACE, NFS4_ACE_DIRECTORY_INHERIT_ACE),
                    NFS4_ACE_INHERIT_ONLY_ACE),
              NFS4_ACE_WRITE_DATA, NFS4_ACL_WHO_NAMED, 70000),
      NFS4Ace(NFS4_ACE_ACCESS_ALLOWED_ACE_TYPE,
              BitOr(BitOr(NFS4_ACE_DIRECTORY_INHERIT_ACE, NFS4_ACE_NO_PROPAGATE_INHERIT_ACE),
                    NFS4_ACE_IDENTIFIER_GROUP),
              NFS4_ACE_READ_DATA, NFS4_ACL_WHO_NAMED, 1001),
      NFS4Ace(NFS4_ACE_ACCESS_ALLOWED_ACE_TYPE,
              BitOr(NFS4_ACE_INHERITED_ACE, NFS4_ACE_FILE_INHERIT_ACE),
              NFS4_ACE_WRITE_DATA, NFS4_ACL_WHO_GROUP, -1),
      NFS4Ace(NFS4_ACE_ACCESS_DENIED_ACE_TYPE, NFS4_ACE_INHERITED_ACE,
              NFS4_ACE_READ_DATA, NFS4_ACL_WHO_NAMED, 0),
      NFS4Ace(NFS4_ACE_SYSTEM_AUDIT_ACE_TYPE,
              BitOr(BitOr(NFS4_ACE_INHERITED_ACE, NFS4_ACE_SUCCESSFUL_ACCESS_ACE_FLAG),
                    BitOr(NFS4_ACE_FILE_INHERIT_ACE,
                          BitOr(NFS4_ACE_NO_PROPAGATE_INHERIT_ACE, NFS4_ACE_INHERIT_ONLY_ACE))),
              NFS4_ACE_WRITE_OWNER, NFS4_ACL_WHO_EVERYONE, -1),
      NFS4Ace(NFS4_ACE_ACCESS_ALLOWED_ACE_TYPE,
              BitOr(NFS4_ACE_INHERITED_ACE,
                    BitOr(NFS4_ACE_DIRECTORY_INHERIT_ACE, NFS4_ACE_INHERIT_ONLY_ACE)),
              NFS4_ACE_READ_DATA, NFS4_ACL_WHO_OWNER, -1) }

\* The lists of ACEs a caller passes
AceLists == UNION {[1 .. n -> AceDomain] : n \in 0 .. MaxAces}

\* A key that ignores the INHERITED flag
NFS4Ace_key_TypeOnly(a) ==
    IF a.ace_type = NFS4_ACE_ACCESS_ALLOWED_ACE_TYPE THEN 1 ELSE 0

\* key_a of NFS4Ace_richcompare
NFS4Ace_key(a) ==
    (IF BitAnd(a.ace_flags, NFS4_ACE_INHERITED_ACE) # 0 THEN 1 ELSE 0) * 2
        + (IF a.ace_type = NFS4_ACE_ACCESS_ALLOWED_ACE_TYPE THEN 1 ELSE 0)

\* NFS4Ace_richcompare(a, b, Py_LT)
NFS4Ace_richcompare_LT(a, b) == NFS4Ace_key(a) < NFS4Ace_key(b)

RECURSIVE InsertSorted(_, _, _)
\* The sorted prefix s with x put in front of the first element, from
\* position i on, that x is less than: behind every element it is not less than
InsertSorted(s, x, i) ==
    IF i > Len(s) THEN Append(s, x)
    ELSE IF NFS4Ace_richcompare_LT(x, s[i])
         THEN SubSeq(s, 1, i - 1) \o <<x>> \o SubSeq(s, i, Len(s))
         ELSE InsertSorted(s, x, i + 1)

RECURSIVE PyList_Sort(_)
\* PyList_Sort(aces_list): the list sorted with the elements' own "<"
PyList_Sort(l) ==
    IF Len(l) = 0 THEN <<>>
    ELSE InsertSorted(PyList_Sort(SubSeq(l, 1, Len(l) - 1)), l[Len(l)], 1)

\* nfs4ace_write_raw: one 20-byte slot
nfs4ace_write_raw(ace_type, ace_flags, ace_iflag, access_mask, who) ==
    htobe32(ace_type) \o htobe32(ace_flags) \o htobe32(ace_iflag)
        \o htobe32(access_mask) \o htobe32(who)

\* nfs4ace_encode(a, p, endp)
nfs4ace_encode(a) ==
    IF a.who_type = NFS4_ACL_WHO_NAMED
    THEN nfs4ace_write_raw(Uint32(a.ace_type), Uint32(a.ace_flags), 0,
                           Uint32(a.access_mask), Uint32(a.who_id))
    ELSE nfs4ace_write_raw(Uint32(a.ace_type), Uint32(a.ace_flags), 1,
                           Uint32(a.access_mask), Uint32(a.who_type))

RECURSIVE EncodeSlots(_)
\* The slots of the ACEs of seq, one behind the other
EncodeSlots(seq) ==
    IF Len(seq) = 0 THEN <<>>
    ELSE nfs4ace_encode(seq[1]) \o EncodeSlots(Tail(seq))

\* The blob of an ACL with these flags and these ACEs, in this order
Blob(acl_flags, seq) ==
    htobe32(Uint32(acl_flags)) \o htobe32(Uint32(Len(seq))) \o EncodeSlots(seq)

\* NFS4ACL.from_aces(aces, acl_flags): the data of the new NFS4ACL
NFS4ACL_from_aces(aces, acl_flags) == Blob(acl_flags, PyList_Sort(aces))

\* The five words of slot number i (from 0) of the blob
RawAce(data, i) ==
    LET k == NFS4_HDR_WORDS + i * NFS4_ACE_WORDS
    IN  [ace_type |-> be32toh(data, k), ace_flags |-> be32toh(data, k + 1),
         ace_iflag |-> be32toh(data, k + 2), access_mask |-> be32toh(data, k + 3),
         who |-> be32toh(data, k + 4)]

\* nfs4ace_decode(p, state)
nfs4ace_decode(data, i) ==
    LET r == RawAce(data, i)
    IN  NFS4Ace(r.ace_type, r.ace_flags, r.access_mask,
                IF r.ace_iflag # 0 THEN r.who ELSE NFS4_ACL_WHO_NAMED,
                IF r.ace_iflag # 0 THEN -1 ELSE r.who)

\* NFS4ACL.aces: the list (raises: ValueError was raised instead)
NFS4ACL_get_aces(data) ==
    IF Len(data) < NFS4_HDR_SZ THEN [raises |-> TRUE, aces |-> <<>>]
    ELSE IF NFS4_HDR_SZ + be32toh(data, 1) * NFS4_ACE_SZ > Len(data)
    THEN [raises |-> TRUE, aces |-> <<>>]
    ELSE [raises |-> FALSE,
          aces |-> [i \in 1 .. be32toh(data, 1) |-> nfs4ace_decode(data, i - 1)]]

\* An inheritance test that treats every child as a file
ace_is_inheritable_FileOnly(ace_flags, is_dir) ==
    BitAnd(ace_flags, NFS4_ACE_FILE_INHERIT_ACE) # 0

\* ace_is_inheritable(ace_flags, is_dir)
ace_is_inheritable(ace_flags, is_dir) ==
    IF is_dir
    THEN BitAnd(ace_flags, BitOr(NFS4_ACE_FILE_INHERIT_ACE,
                                 NFS4_ACE_DIRECTORY_INHERIT_ACE)) # 0
    ELSE BitAnd(ace_flags, NFS4_ACE_FILE_INHERIT_ACE) # 0

\* Flags that keep FILE_INHERIT and DIRECTORY_INHERIT for every child
InheritedFlags_AlwaysPropagate(ace_flags, is_dir) ==
    BitOr(BitClear(ace_flags, NFS4_ACE_INHERIT_ONLY_ACE), NFS4_ACE_INHERITED_ACE)

\* new_flags of the second pass
InheritedFlags(ace_flags, is_dir) ==
    IF is_dir /\ BitAnd(ace_flags, NFS4_ACE_NO_PROPAGATE_INHERIT_ACE) = 0
    THEN BitOr(BitClear(ace_flags, NFS4_ACE_INHERIT_ONLY_ACE), NFS4_ACE_INHERITED_ACE)
    ELSE BitOr(BitClear(ace_flags, NFS4_ACE_INHERIT_MASK), NFS4_ACE_INHERITED_ACE)

\* The slots both passes look at: naces_in of them, or as many as the data holds
SlotsIn(data) ==
    LET naces_in == be32toh(data, 1)
        held == (Len(data) - NFS4_HDR_SZ) \div NFS4_ACE_SZ
    IN  IF naces_in < held THEN naces_in ELSE held

RECURSIVE InheritSlots(_, _, _)
\* The second pass from slot i on: the slots written to outbuf
InheritSlots(data, is_dir, i) ==
    IF i >= SlotsIn(data) THEN <<>>
    ELSE LET r == RawAce(data, i)
         IN  (IF ace_is_inheritable(r.ace_flags, is_dir)
              THEN nfs4ace_write_raw(r.ace_type, InheritedFlags(r.ace_flags, is_dir),
                                     r.ace_iflag, r.access_mask, r.who)
              ELSE <<>>) \o InheritSlots(data, is_dir, i + 1)

\* naces_out of the first pass
CountInheritable(data, is_dir) ==
    Cardinality({i \in 0 .. SlotsIn(data) - 1 :
                    ace_is_inheritable(RawAce(data, i).ace_flags, is_dir)})

\* No NFS4ACL object
NoAcl == [kind |-> "none", data |-> <<>>, is_dir |-> FALSE]

\* NFS4ACL.generate_inherited_acl(is_dir): the new NFS4ACL or the exception
NFS4ACL_generate_inherited_acl(data, is_dir) ==
    IF Len(data) < NFS4_HDR_SZ
    THEN [kind |-> "ValueError", data |-> <<>>, is_dir |-> is_dir]
    ELSE IF CountInheritable(data, is_dir) = 0
    THEN [kind |-> "ValueError", data |-> <<>>, is_dir |-> is_dir]
    ELSE [kind |-> "acl",
          data |-> htobe32(IF is_dir THEN NFS4_ACL_IS_DIR ELSE 0)
                       \o htobe32(CountInheritable(data, is_dir))
                       \o InheritSlots(data, is_dir, 0),
          is_dir |-> is_dir]

\* No ACL operation is in progress
NotValidated == [fd |-> "", data |-> <<>>, ret |-> "none"]

\* The target is a directory: fstat says so, or no fd was given
TargetIsDir_FdOnly(fd) == fd = "dir"

\* is_dir of nfs4acl_valid: 1 when fd == -1, else S_ISDIR(st.st_mode)
TargetIsDir(fd) == fd = "none" \/ fd = "dir"

\* nfs4acl_valid(fd, data, len).  fd is "none" (-1), "dir", "file" or "bad"
\* (fstat fails); the result is "ok" (0) or the exception set with -1
nfs4acl_valid(fd, data) ==
    IF Len(data) < NFS4_HDR_SZ THEN "ok"
    ELSE LET held == 0 .. SlotsIn(data) - 1
             deny_special ==
                 \E i \in held :
                    /\ RawAce(data, i).ace_type = NFS4_ACE_ACCESS_DENIED_ACE_TYPE
                    /\ RawAce(data, i).ace_iflag = 1
             inherit_only_alone ==
                 \E i \in held :
                    /\ BitAnd(RawAce(data, i).ace_flags, NFS4_ACE_INHERIT_ONLY_ACE) # 0
                    /\ BitAnd(RawAce(data, i).ace_flags,
                              BitOr(NFS4_ACE_FILE_INHERIT_ACE,
                                    NFS4_ACE_DIRECTORY_INHERIT_ACE)) = 0
             has_propagate ==
                 \E i \in held : BitAnd(RawAce(data, i).ace_flags, NFS4_ACE_INHERIT_MASK) # 0
             has_inheritable ==
                 \E i \in held :
                    BitAnd(RawAce(data, i).ace_flags,
                           BitOr(NFS4_ACE_FILE_INHERIT_ACE,
                                 NFS4_ACE_DIRECTORY_INHERIT_ACE)) # 0
         IN  IF deny_special \/ inherit_only_alone THEN "ValueError"
             ELSE IF fd = "bad" THEN "OSError"
             ELSE IF has_propagate /\ ~TargetIsDir(fd) THEN "ValueError"
             ELSE IF TargetIsDir(fd) /\ ~has_inheritable THEN "ValueError"
             ELSE "ok"

\* No NFS4 ACL operation is in progress
Nfs4Idle == aces_arg = <<>> /\ acl = NoAcl /\ inherited = NoAcl /\ valid = NotValidated

-----------------------------------------------------------------------------
(* POSIX.1e ACLs: the little-endian xattr blobs, from_aces, validation *)

\* Lists given to from_aces hold at most this many entries, in any order
MaxPosixAces == 3

\* ACLs in canonical order hold at most this many entries per xattr
MaxEntries == 5

POSIX_HDR_SZ == 4
POSIX_ACE_SZ == 8
POSIX_ACL_VERSION == 2

POSIX_TAG_USER_OBJ == 1
POSIX_TAG_USER == 2
POSIX_TAG_GROUP_OBJ == 4
POSIX_TAG_GROUP == 8
POSIX_TAG_MASK == 16
POSIX_TAG_OTHER == 32

POSIX_PERM_EXECUTE == 1
POSIX_PERM_WRITE == 2
POSIX_PERM_READ == 4

\* A uint32_t is held as its four bytes, least significant first, so that
\* 0xFFFFFFFF has a value here.  write_le32(p, v) with v a long: the bytes of
\* (uint32_t)v
write_le32(v) ==
    << v % 256, (v \div 256) % 256, (v \div 65536) % 256, (v \div 16777216) % 256 >>

\* write_le16(p, v): the bytes of (uint16_t)v
write_le16(v) == << v % 256, (v \div 256) % 256 >>

\* read_le32(p) at offset off of the blob: the uint32_t, as its four bytes
read_le32(data, off) == SubSeq(data, off + 1, off + 4)

\* read_le16(p) at offset off of the blob
read_le16(data, off) == data[off + 1] + data[off + 2] * 256

\* 0xFFFFFFFFU
POSIX_SPECIAL_ID == <<255, 255, 255, 255>>

\* (long)xid of a uint32_t below 2^31
LongOf(xid) == xid[1] + xid[2] * 256 + xid[3] * 65536 + xid[4] * 16777216

\* The members of the POSIXTag enum
posix_tag_table ==
    {POSIX_TAG_USER_OBJ, POSIX_TAG_USER, POSIX_TAG_GROUP_OBJ, POSIX_TAG_GROUP,
     POSIX_TAG_MASK, POSIX_TAG_OTHER}

\* A test that takes a named USER for a special entry as well
is_special_tag_AndUser(tag) == tag # POSIX_TAG_GROUP

is_special_tag(tag) ==
    \/ tag = POSIX_TAG_USER_OBJ
    \/ tag = POSIX_TAG_GROUP_OBJ
    \/ tag = POSIX_TAG_MASK
    \/ tag = POSIX_TAG_OTHER

\* A POSIXAce object; default_ is the field the property "default" reads
POSIXAce(tag, perms, id, default_) ==
    [tag |-> tag, perms |-> perms, id |-> id, default_ |-> default_]

\* A "<" that compares the tags only
POSIXAce_richcompare_LT_TagOnly(a, b) == a.tag < b.tag

\* POSIXAce_richcompare(a, b, Py_LT)
POSIXAce_richcompare_LT(a, b) ==
    IF a.tag # b.tag THEN a.tag < b.tag
    ELSE IF a.id # b.id THEN a.id < b.id
    ELSE FALSE

RECURSIVE InsertSortedPosix(_, _, _)
\* InsertSorted for a list of POSIXAce
InsertSortedPosix(s, x, i) ==
    IF i > Len(s) THEN Append(s, x)
    ELSE IF POSIXAce_richcompare_LT(x, s[i])
         THEN SubSeq(s, 1, i - 1) \o <<x>> \o SubSeq(s, i, Len(s))
         ELSE InsertSortedPosix(s, x, i + 1)

RECURSIVE PyList_Sort_Posix(_)
\* PyList_Sort(access_list), PyList_Sort(default_list)
PyList_Sort_Posix(l) ==
    IF Len(l) = 0 THEN <<>>
    ELSE InsertSortedPosix(PyList_Sort_Posix(SubSeq(l, 1, Len(l) - 1)), l[Len(l)], 1)

\* One record of encode_posix_aces: tag, perm, xid
encode_posix_ace(a) ==
    write_le16(a.tag) \o write_le16(a.perms)
        \o (IF is_special_tag(a.tag) THEN POSIX_SPECIAL_ID ELSE write_le32(a.id))

RECURSIVE EncodePosixRecords(_)
\* The records of the entries of seq, one behind the other
EncodePosixRecords(seq) ==
    IF Len(seq) = 0 THEN <<>>
    ELSE encode_posix_ace(seq[1]) \o EncodePosixRecords(Tail(seq))

\* encode_posix_aces(ace_seq)
encode_posix_aces(seq) == write_le32(POSIX_ACL_VERSION) \o EncodePosixRecords(seq)

\* No POSIXACL object
NoPosixAcl ==
    [kind |-> "none", access_data |-> <<>>, default_none |-> TRUE,
     default_data |-> <<>>, is_dir |-> FALSE]

\* POSIXACL(access_data, default_data); default_none: default_data is None
POSIXACL(kind, access_data, default_none, default_data, is_dir) ==
    [kind |-> kind, access_data |-> access_data, default_none |-> default_none,
     default_data |-> IF default_none THEN <<>> ELSE default_data, is_dir |-> is_dir]

\* POSIXACL.from_aces(aces)
POSIXACL_from_aces(aces) ==
    LET access_list == PyList_Sort_Posix(SelectSeq(aces, LAMBDA a : ~a.default_))
        default_list == PyList_Sort_Posix(SelectSeq(aces, LAMBDA a : a.default_))
    IN  POSIXACL("from_aces", encode_posix_aces(access_list),
                 Len(default_list) = 0, encode_posix_aces(default_list), FALSE)

\* One entry of parse_posix_aces: record number i (from 0) of the blob
parse_posix_ace(buf, i, is_default) ==
    LET off == POSIX_HDR_SZ + i * POSIX_ACE_SZ
        xid == read_le32(buf, off + 4)
    IN  POSIXAce(read_le16(buf, off), read_le16(buf, off + 2),
                 IF xid = POSIX_SPECIAL_ID THEN -1 ELSE LongOf(xid), is_default)

\* parse_posix_aces(buf, bufsz, is_default): the list (raises: ValueError
\* was raised instead, by the length test or by POSIXTag(tag_raw))
parse_posix_aces(buf, is_default) ==
    IF Len(buf) = 0 THEN [raises |-> FALSE, aces |-> <<>>]
    ELSE IF Len(buf) < POSIX_HDR_SZ THEN [raises |-> TRUE, aces |-> <<>>]
    ELSE LET naces == (Len(buf) - POSIX_HDR_SZ) \div POSIX_ACE_SZ
         IN  IF \E i \in 0 .. naces - 1 :
                    read_le16(buf, POSIX_HDR_SZ + i * POSIX_ACE_SZ) \notin posix_tag_table
             THEN [raises |-> TRUE, aces |-> <<>>]
             ELSE [raises |-> FALSE,
                   aces |-> [i \in 1 .. naces |-> parse_posix_ace(buf, i - 1, is_default)]]

\* POSIXACL.aces
POSIXACL_get_aces(self) == parse_posix_aces(self.access_data, FALSE)

\* POSIXACL.default_aces
POSIXACL_get_default_aces(self) ==
    IF self.default_none THEN [raises |-> FALSE, aces |-> <<>>]
    ELSE parse_posix_aces(self.default_data, TRUE)

\* A trivial test that looks at the access xattr only
POSIXACL_get_trivial_AccessOnly(self) == Len(self.access_data) = 0

\* POSIXACL.trivial
POSIXACL_get_trivial(self) == Len(self.access_data) = 0 /\ self.default_none

\* An inheritance that hands the default ACL on to every child
POSIXACL_generate_inherited_acl_Always(self, is_dir) ==
    IF self.default_none
    THEN POSIXACL("ValueError", <<>>, TRUE, <<>>, is_dir)
    ELSE POSIXACL("acl", self.default_data, FALSE, self.default_data, is_dir)

\* POSIXACL.generate_inherited_acl(is_dir): the new POSIXACL or the exception
POSIXACL_generate_inherited_acl(self, is_dir) ==
    IF Len(self.access_data) = 0 /\ self.default_none
    THEN POSIXACL("ValueError", <<>>, TRUE, <<>>, is_dir)
    ELSE IF self.default_none
    THEN POSIXACL("ValueError", <<>>, TRUE, <<>>, is_dir)
    ELSE POSIXACL("acl", self.default_data, ~is_dir, self.default_data, is_dir)

\* The number of records of the blob with this tag
CountTag(data, tag) ==
    Cardinality({i \in 0 .. (Len(data) - POSIX_HDR_SZ) \div POSIX_ACE_SZ - 1 :
                    read_le16(data, POSIX_HDR_SZ + i * POSIX_ACE_SZ) = tag})

\* A MASK rule that asks for a MASK only: n_named > 0 && n_mask < 1
MaskRuleBroken_AtLeastOne(n_named, n_mask) == n_named > 0 /\ n_mask < 1

\* n_named > 0 && n_mask != 1, or n_mask > 1
MaskRuleBroken(n_named, n_mask) == (n_named > 0 /\ n_mask # 1) \/ n_mask > 1

\* validate_posix_blob(data, len, label): "ok" (0) or the exception set with -1
validate_posix_blob(data) ==
    IF Len(data) < POSIX_HDR_SZ THEN "ValueError"
    ELSE IF read_le32(data, 0) # write_le32(POSIX_ACL_VERSION) THEN "ValueError"
    ELSE LET recs == 0 .. (Len(data) - POSIX_HDR_SZ) \div POSIX_ACE_SZ - 1
             tag(i) == read_le16(data, POSIX_HDR_SZ + i * POSIX_ACE_SZ)
             xid(i) == read_le32(data, POSIX_HDR_SZ + i * POSIX_ACE_SZ + 4)
         IN  IF \E i \in recs :
                    \/ tag(i) \notin posix_tag_table
                    \/ /\ tag(i) \in {POSIX_TAG_USER, POSIX_TAG_GROUP}
                       /\ xid(i) = POSIX_SPECIAL_ID
             THEN "ValueError"
             ELSE IF CountTag(data, POSIX_TAG_USER_OBJ) # 1 THEN "ValueError"
             ELSE IF CountTag(data, POSIX_TAG_GROUP_OBJ) # 1 THEN "ValueError"
             ELSE IF CountTag(data, POSIX_TAG_OTHER) # 1 THEN "ValueError"
             ELSE IF MaskRuleBroken(CountTag(data, POSIX_TAG_USER)
                                        + CountTag(data, POSIX_TAG_GROUP),
                                    CountTag(data, POSIX_TAG_MASK))
             THEN "ValueError"
             ELSE "ok"

\* posixacl_valid(fd, access_data, access_len, default_data, default_len) on
\* the xattr bytes of a POSIXACL; default_data is NULL when the object has
\* None.  fd is "dir", "file" or "bad" (fstat fails)
posixacl_valid(fd, self) ==
    IF validate_posix_blob(self.access_data) # "ok" THEN "ValueError"
    ELSE IF self.default_none THEN "ok"
    ELSE IF fd = "bad" THEN "OSError"
    ELSE IF fd # "dir" THEN "ValueError"
    ELSE validate_posix_blob(self.default_data)

\* posixacl_valid was not called
PosixNotValidated == [fd |-> "", on |-> "", ret |-> "none"]

\* No POSIX ACL operation is in progress
PosixIdle ==
    /\ paces_arg = <<>>
    /\ pacl = NoPosixAcl
    /\ pinherited = NoPosixAcl
    /\ pvalid = PosixNotValidated

-----------------------------------------------------------------------------
(* fgetacl: the xattr probes of do_fgetacl *)

\* What fgetxattr answers for one xattr name on the fd, once a call has not
\* been interrupted without consequence: the probe fails with an errno
\* ("EOPNOTSUPP", "ENODATA", "EIO" for any other), it is interrupted and the
\* signal handler raises ("signal"), it returns 0 ("empty"), it returns a
\* size and the read succeeds ("data") or the read then fails ("readfail")
XattrAnswers == {"EOPNOTSUPP", "ENODATA", "EIO", "signal", "empty", "data", "readfail"}

\* The errno read_xattr_raw fails with
ReadErrno == "ERANGE"

\* do_fgetacl was not called
NotFetched ==
    [ret |-> "none", exc |-> "", errno |-> "", type |-> "",
     nfs4_data |-> "", access_data |-> "", default_data |-> ""]

\* return -1 with this exception set
FgetaclFails(exc, errno) ==
    [ret |-> "-1", exc |-> exc, errno |-> errno, type |-> "",
     nfs4_data |-> "", access_data |-> "", default_data |-> ""]

\* A test of the access probe that never takes ACLs for disabled
AccessProbeDisabled_Never(a) == FALSE

\* sz == -1 && errno == EOPNOTSUPP on the probe of system.posix_acl_access
AccessProbeDisabled(a) == a = "EOPNOTSUPP"

\* do_fgetacl(fd, out) on an fd with these answers: *out and the return
\* value; a buffer is "NULL" (with length 0) or "data"
do_fgetacl(x) ==
    IF x.nfs4 = "signal" THEN FgetaclFails("signal", "EINTR")
    ELSE IF x.nfs4 \in {"empty", "data", "readfail", "ENODATA"}
    THEN IF x.nfs4 = "readfail" THEN FgetaclFails("OSError", ReadErrno)
         ELSE [ret |-> "0", exc |-> "", errno |-> "", type |-> "ACLTYPE_NFS4",
               nfs4_data |-> IF x.nfs4 = "data" THEN "data" ELSE "NULL",
               access_data |-> "", default_data |-> ""]
    ELSE IF x.nfs4 # "EOPNOTSUPP" THEN FgetaclFails("OSError", x.nfs4)
    ELSE IF x.access = "signal" THEN FgetaclFails("signal", "EINTR")
    ELSE IF AccessProbeDisabled(x.access) THEN FgetaclFails("OSError", "EOPNOTSUPP")
    ELSE IF x.access = "readfail" THEN FgetaclFails("OSError", ReadErrno)
    ELSE IF x.default_ = "signal" THEN FgetaclFails("signal", "EINTR")
    ELSE IF x.default_ \in {"EOPNOTSUPP", "EIO"} THEN FgetaclFails("OSError", x.default_)
    ELSE IF x.default_ = "readfail" THEN FgetaclFails("OSError", ReadErrno)
    ELSE [ret |-> "0", exc |-> "", errno |-> "", type |-> "ACLTYPE_POSIX",
          nfs4_data |-> "",
          access_data |-> IF x.access = "data" THEN "data" ELSE "NULL",
          default_data |-> IF x.default_ = "data" THEN "data" ELSE "NULL"]

\* No fd is being asked for its ACL
NoXattrs == [nfs4 |-> "", access |-> "", default_ |-> ""]

\* No fgetacl is in progress
FgetaclIdle == xattr = NoXattrs /\ acl_out = NotFetched

-----------------------------------------------------------------------------
(* fsetacl: the xattr writes of do_fsetacl_posix *)

\* How the kernel disposes of one call once it is not interrupted without
\* consequence: it carries it out ("ok"), fails it with an errno ("EPERM"
\* for any), or the call is interrupted and the signal handler raises
\* ("signal")
Dispositions == {"ok", "EPERM", "signal"}

\* do_fsetacl_posix was not called
NotSet ==
    [default_null |-> FALSE, access |-> "", default_ |-> "",
     ret |-> "none", exc |-> "", errno |-> "", calls |-> <<>>]

\* No xattrs are being written
FsetaclIdle == store = [access |-> "", default_ |-> ""] /\ fsetacl_call = NotSet

\* A removal that surfaces ENODATA too
RemoveFails_Always(errno) == TRUE

\* ret == -1 && errno != ENODATA after fremovexattr
RemoveFails(errno) == errno # "ENODATA"

\* What fremovexattr(fd, POSIX_DEFAULT_XATTR) answers: the errno, or "" for 0
RemoveAnswer(st, disposition) ==
    IF disposition # "ok" THEN disposition
    ELSE IF st.default_ = "absent" THEN "ENODATA"
    ELSE ""

\* do_fsetacl_posix(fd, access_data, access_len, default_data, default_len):
\* the xattrs of the fd afterwards, the system calls made and the result;
\* default_null: default_data is NULL; a and d: how the kernel disposes of
\* the call on the access xattr and of the call on the default xattr
do_fsetacl_posix(st, default_null, a, d) ==
    LET failed(e) == [ret |-> "-1", exc |-> IF e = "signal" THEN "signal" ELSE "OSError",
                      errno |-> IF e = "signal" THEN "EINTR" ELSE e]
        done == [ret |-> "0", exc |-> "", errno |-> ""]
        set_access == <<"fsetxattr", "system.posix_acl_access">>
        set_default == <<"fsetxattr", "system.posix_acl_default">>
        remove_default == <<"fremovexattr", "system.posix_acl_default">>
    IN  IF a # "ok"
        THEN [store |-> st, calls |-> <<set_access>>, res |-> failed(a)]
        ELSE IF ~default_null
        THEN IF d # "ok"
             THEN [store |-> [st EXCEPT !.access = "new"],
                   calls |-> <<set_access, set_default>>, res |-> failed(d)]
             ELSE [store |-> [access |-> "new", default_ |-> "new"],
                   calls |-> <<set_access, set_default>>, res |-> done]
        ELSE IF RemoveAnswer(st, d) # "" /\ RemoveFails(RemoveAnswer(st, d))
        THEN [store |-> [st EXCEPT !.access = "new"],
              calls |-> <<set_access, remove_default>>, res |-> failed(RemoveAnswer(st, d))]
        ELSE [store |-> [access |-> "new", default_ |-> "absent"],
              calls |-> <<set_access, remove_default>>, res |-> done]

-----------------------------------------------------------------------------
(* FileHandle.open *)

\* Mount ids are only compared, never computed with; they are held as
\* their decimal numerals, the unique ones lying beyond 32 bits
LegacyMountIds == {"21", "22"}
UniqueMountIds == {"4294967317", "4294967318"}

\* The sentinel of py_fhandle_new: the handle was never filled in
UINT64_MAX == "18446744073709551615"

\* py_fhandle_open was not called
NotOpened ==
    [mount_fd |-> [legacy |-> "", unique |-> ""], statx |-> "", open |-> "",
     ret |-> "none", exc |-> "", errno |-> "", calls |-> <<>>]

\* No handle is being opened
FhandleIdle ==
    fhandle = [mount_id |-> UINT64_MAX, unique_mount_id |-> FALSE] /\ open_call = NotOpened

\* A request that always asks for the legacy id
statx_mask_Legacy(self) == "STATX_MNT_ID"

\* statx_mask = self->unique_mount_id ? STATX_MNT_ID_UNIQUE : STATX_MNT_ID
statx_mask(self) ==
    IF self.unique_mount_id THEN "STATX_MNT_ID_UNIQUE" ELSE "STATX_MNT_ID"

\* st.stx_mnt_id after statx(mount_fd, "", AT_EMPTY_PATH, mask, &st)
stx_mnt_id(mount_fd, mask) ==
    IF mask = "STATX_MNT_ID_UNIQUE" THEN mount_fd.unique ELSE mount_fd.legacy

\* py_fhandle_open(self, mount_fd, flags): the system calls made and the
\* result; sx and op: how the kernel disposes of statx and of
\* open_by_handle_at
py_fhandle_open(self, mount_fd, sx, op) ==
    LET failed(e) == [ret |-> "NULL", exc |-> IF e = "signal" THEN "signal" ELSE "OSError",
                      errno |-> IF e = "signal" THEN "EINTR" ELSE e]
        call_statx == <<"statx", statx_mask(self)>>
        call_open == <<"open_by_handle_at">>
    IN  IF self.mount_id = UINT64_MAX
        THEN [calls |-> <<>>, res |-> [ret |-> "NULL", exc |-> "ValueError", errno |-> ""]]
        ELSE IF sx # "ok"
        THEN [calls |-> <<call_statx>>, res |-> failed(sx)]
        ELSE IF stx_mnt_id(mount_fd, statx_mask(self)) # self.mount_id
        THEN [calls |-> <<call_statx>>,
              res |-> [ret |-> "NULL", exc |-> "ValueError", errno |-> ""]]
        ELSE IF op # "ok"
        THEN [calls |-> <<call_statx, call_open>>, res |-> failed(op)]
        ELSE [calls |-> <<call_statx, call_open>>,
              res |-> [ret |-> "fd", exc |-> "", errno |-> ""]]

-----------------------------------------------------------------------------
(* iter_mount: the MountIterator *)

\* The ids one listmount call can return
LISTMOUNT_BATCH_SIZE == 1024

\* <linux/mount.h>: list the mounts from the last one backwards
LISTMOUNT_REVERSE == 1

\* The most listmount calls one iteration makes
MaxBatches == 2

\* The length of a batch that is not full
ShortBatch == 2

\* The buffer mnt_ids holds ids that follow one another: the id at index 0
\* and the step to the next one stand for the whole buffer
NoBatch == [first |-> 0, step |-> 0]

\* self->mnt_ids[i]
mnt_ids_at(self, i) == self.mnt_ids.first + i * self.mnt_ids.step

\* The batches the kernel may answer a listmount request with, or -1 for an
\* error; once MaxBatches requests were made no mounts beyond a short batch
\* are left
ListmountAnswers(made) ==
    {[count |-> 0, mnt_ids |-> NoBatch]}
    \cup [count : {ShortBatch}, mnt_ids : [first : {5000, 5001}, step : {-1, 1}]]
    \cup IF made < MaxBatches
         THEN {[count |-> -1, mnt_ids |-> NoBatch]}
              \cup [count : {LISTMOUNT_BATCH_SIZE},
                    mnt_ids : [first : {5000, 5001}, step : {-1, 1}]]
         ELSE {}

\* No mount_iter_next was called
NoMountRes == [kind |-> "none", mnt_id |-> 0]

\* No mounts are being iterated
MountIdle ==
    /\ mount_iter = [param |-> 0, mnt_ids |-> NoBatch, batch_count |-> 0, current_idx |-> 0]
    /\ mount_args = [reverse |-> FALSE, last_mnt_id |-> 0]
    /\ requests = <<>>
    /\ mount_res = NoMountRes

\* req.param of mount_iter_init
InitParam(last_mnt_id, reverse) ==
    IF reverse THEN BitOr(last_mnt_id, LISTMOUNT_REVERSE) ELSE last_mnt_id

\* req.param of the continuation request of mount_iter_next: the last id
\* of the batch is stored first, and the flag is tested on what was stored
ContinueParam(self, reverse) ==
    LET stored == mnt_ids_at(self, self.batch_count - 1)
    IN  IF BitAnd(stored, LISTMOUNT_REVERSE) # 0
        THEN BitOr(mnt_ids_at(self, self.batch_count - 1), LISTMOUNT_REVERSE)
        ELSE stored

\* mount_iter_next(self): the iterator afterwards, the request made if any
\* and what is returned; answer: what the kernel answers to a listmount
\* request, sm: how it disposes of the statmount call
mount_iter_next(self, reverse, answer, sm) ==
    LET yield(it) ==
            [self |-> [it EXCEPT !.current_idx = it.current_idx + 1],
             res |-> IF sm = "ok"
                     THEN [kind |-> "yield", mnt_id |-> mnt_ids_at(it, it.current_idx)]
                     ELSE [kind |-> "OSError", mnt_id |-> mnt_ids_at(it, it.current_idx)]]
        asked == [self EXCEPT !.param = ContinueParam(self, reverse)]
        filled == [asked EXCEPT !.mnt_ids = answer.mnt_ids,
                                !.batch_count = answer.count, !.current_idx = 0]
        stop == [kind |-> "StopIteration", mnt_id |-> 0]
    IN  IF self.current_idx < self.batch_count
        THEN [request |-> <<>>] @@ yield(self)
        ELSE IF self.batch_count # LISTMOUNT_BATCH_SIZE
        THEN [request |-> <<>>, self |-> self, res |-> stop]
        ELSE IF answer.count < 0
        THEN [request |-> <<asked.param>>, self |-> asked,
              res |-> [kind |-> "OSError", mnt_id |-> 0]]
        ELSE IF answer.count = 0
        THEN [request |-> <<asked.param>>, self |-> filled, res |-> stop]
        ELSE [request |-> <<asked.param>>] @@ yield(filled)

\* None of the operations that only wrap system calls is in progress
SysIdle == FsetaclIdle /\ FhandleIdle /\ MountIdle

AclIdle == Nfs4Idle /\ PosixIdle /\ FgetaclIdle /\ SysIdle

-----------------------------------------------------------------------------
(* The directory trees *)

\* The small tree: /{a/{x, d/{z}, y -> .}, b -> ., c/ (foreign mount), f, e/}
SmallTree ==
    << [name |-> "",  kind |-> "dir",     parent |-> 0, kids |-> <<2, 7, 8, 10, 9>>, size |-> 0, btime |-> 1],
       [name |-> "a", kind |-> "dir",     parent |-> 1, kids |-> <<3, 5, 4>>,        size |-> 0, btime |-> 1],
       [name |-> "x", kind |-> "file",    parent |-> 2, kids |-> <<>>,            size |-> 5, btime |-> 1],
       [name |-> "y", kind |-> "symlink", parent |-> 2, kids |-> <<>>,            size |-> 11, btime |-> 1],
       [name |-> "d", kind |-> "dir",     parent |-> 2, kids |-> <<6>>,           size |-> 0, btime |-> 3],
       [name |-> "z", kind |-> "file",    parent |-> 5, kids |-> <<>>,            size |-> 7, btime |-> 3],
       [name |-> "b", kind |-> "symlink", parent |-> 1, kids |-> <<>>,            size |-> 4, btime |-> 1],
       [name |-> "c", kind |-> "mount",   parent |-> 1, kids |-> <<>>,            size |-> 0, btime |-> 1],
       [name |-> "e", kind |-> "dir",     parent |-> 1, kids |-> <<>>,            size |-> 0, btime |-> 1],
       [name |-> "f", kind |-> "file",    parent |-> 1, kids |-> <<>>,            size |-> 2, btime |-> 1] >>

\* The chain: a root and MAX_DEPTH nested directories, each one inside the other.
ChainLen == MAX_DEPTH + 1

Root == 1

Nodes == IF fs = "chain" THEN 1 .. ChainLen ELSE 1 .. Len(SmallTree)

Kids(n) ==
    IF fs = "chain" THEN (IF n < ChainLen THEN <<n + 1>> ELSE <<>>)
    ELSE SmallTree[n].kids

Kind(n) == IF fs = "chain" THEN "dir" ELSE SmallTree[n].kind

Name(n) == IF fs = "chain" THEN "d" ELSE SmallTree[n].name

Parent(n) == IF fs = "chain" THEN n - 1 ELSE SmallTree[n].parent

Size(n) == IF fs = "chain" THEN 0 ELSE SmallTree[n].size

Btime(n) == IF fs = "chain" THEN 1 ELSE SmallTree[n].btime

\* Inode numbers: every node has its own, and none is 0.
Ino(n) == n

\* An inode number no node of the small tree has.
MissingIno == Len(SmallTree) + 1

RECURSIVE InSubtree(_, _)
\* n lies strictly inside directory d
InSubtree(n, d) ==
    IF n = Root \/ n = 0 THEN FALSE
    ELSE Parent(n) = d \/ InSubtree(Parent(n), d)

\* Position of child c in its parent's readdir order
KidIndex(c) == CHOOSE i \in 1 .. Len(Kids(Parent(c))) : Kids(Parent(c))[i] = c

\* The readdir entry that follows child c in its parent (0: end of directory)
NextSibling(c) ==
    IF KidIndex(c) < Len(Kids(Parent(c))) THEN Kids(Parent(c))[KidIndex(c) + 1] ELSE 0

-----------------------------------------------------------------------------
(* The kernel *)

\* The node a name resolves to inside directory d ("." is not looked up)
Lookup(d, name) == CHOOSE c \in Nodes : Parent(c) = d /\ Name(c) = name

\* snprintf(full_path, "%s/%s", cur_dir->path, name): paths are nodes
PathJoin(p, name) == Lookup(p, name)

\* The stream of a directory: ".", "..", then its children
StreamLen(d) == 2 + Len(Kids(d))

Dirent(d, pos) ==
    IF pos = 1 THEN [d_name |-> ".",  d_ino |-> Ino(d), d_type |-> "DT_DIR"]
    ELSE IF pos = 2 THEN [d_name |-> "..", d_ino |-> (IF d = Root THEN Ino(d) ELSE Ino(Parent(d))), d_type |-> "DT_DIR"]
    ELSE LET c == Kids(d)[pos - 2]
         IN  [d_name |-> Name(c), d_ino |-> Ino(c),
              d_type |-> CASE Kind(c) \in {"dir", "mount"} -> "DT_DIR"
                           [] Kind(c) = "symlink" -> "DT_LNK"
                           [] OTHER -> "DT_REG"]

\* openat2(dirfd, name, flags, RESOLVE_NO_XDEV | RESOLVE_NO_SYMLINKS) when no
\* failure is injected: a symlink gives ELOOP, a mount point EXDEV.
OpenErrno(n) ==
    CASE Kind(n) = "symlink" /\ state.file_open_flags # "O_PATH|O_NOFOLLOW" -> "ELOOP"
      [] Kind(n) = "mount"   -> "EXDEV"
      [] OTHER               -> "ok"

\* statx(fd, "", AT_EMPTY_PATH, ...) of node n
Statx(n) ==
    [stx_ino |-> Ino(n), stx_isdir |-> (Kind(n) = "dir"),
     stx_size |-> Size(n), stx_btime |-> Btime(n)]

\* close(fd)
CloseFd(fds, fd) == fds \ {fd}

\* A successful open or dup that returns fd
OpenFd(fds, fd) == fds \cup {fd}

-----------------------------------------------------------------------------
(* The iterator object *)

cur_depth == Len(dir_stack)

cookie_sz == Len(cookies)

Top(stk) == stk[Len(stk)]

\* memset(&iter->last, 0, ...); iter->last.fd = -1.  node is the kernel's side
\* of last.fd: the file the descriptor was opened on.
NoEntry ==
    [name |-> "", fd |-> -1, is_dir |-> FALSE, node |-> 0,
     st |-> [stx_ino |-> 0, stx_isdir |-> FALSE, stx_size |-> 0, stx_btime |-> 0]]

NoDirent == [d_name |-> "", d_ino |-> 0, d_type |-> "DT_UNKNOWN"]

Res(kind, node, depth, path, why) ==
    [kind |-> kind, node |-> node, depth |-> depth, path |-> path, why |-> why]

NoResult == Res("none", 0, 0, 0, "")

\* dir_stack_to_cookies: the inode of every (path, inode) pair; None or () give NULL
dir_stack_to_cookies(S) == [i \in 1 .. Len(S) |-> S[i].ino]

\* build_dir_stack_tuple: ((path, inode), ...) of the frames, root first
build_dir_stack_tuple(stk) ==
    [i \in 1 .. Len(stk) |-> [path |-> stk[i].path, ino |-> stk[i].ino]]

\* create_filesystem_iterator when every call in it succeeds: the fields of
\* the new object, with the root stream on descriptor fd0.  st0 is the
\* caller's iter_state_t (btime_cutoff, cnt, cnt_bytes), inc and cb the
\* reporting increment and whether a callback was given.
create_filesystem_iterator(S, st0, inc, cb, fd0) ==
    [dir_stack |-> << [path |-> Root, dirp |-> [fd |-> fd0, dir |-> Root, pos |-> 0], ino |-> Ino(Root)] >>,
     last      |-> NoEntry,
     skip_next_recursion |-> FALSE,
     cookies   |-> dir_stack_to_cookies(S),
     restoring_from_cookie |-> (dir_stack_to_cookies(S) # <<>>),
     state     |-> st0,
     reporting_cb_increment |-> inc,
     reporting_cb |-> cb,
     openFds   |-> OpenFd({}, fd0)]

\* closedir(iter->dirp) of cleanup_iter_dir: the stream's descriptor is closed
cleanup_iter_dir(fds, frame) == CloseFd(fds, frame.dirp.fd)

\* pop_dir_stack: the frames after the pop
pop_dir_stack(stk) == IF Len(stk) = 0 THEN stk ELSE SubSeq(stk, 1, Len(stk) - 1)

\* pop_dir_stack: the descriptors after the pop
pop_dir_stack_fds(stk, fds) == IF Len(stk) = 0 THEN fds ELSE cleanup_iter_dir(fds, Top(stk))

\* A head of __next__ that leaves the previous entry's fd open
ClosePrevious_NoClose(fds, l) == fds

\* "Close fd from previous iteration" at the head of __next__
ClosePrevious(fds, l) == IF l.fd >= 0 THEN CloseFd(fds, l.fd) ELSE fds

\* The test of FSITER_ASSERT at the head of the main loop
FsiterAssertHolds(depth) == depth < MAX_DEPTH

\* A head of __next__ that resets the skip flag without popping
PopOnSkip_Never(flag, depth) == FALSE

\* if (self->skip_next_recursion) { ...; if (self->cur_depth > 0) pop }
PopOnSkip(flag, depth) == flag /\ depth > 0

\* A cookie test that passes every entry
CookieMismatch_Never(cks, depth, d_ino) == FALSE

\* The cookie test of the loop: in resume mode an entry whose inode is not
\* the cookie of this depth is passed over
CookieMismatch(cks, depth, d_ino) ==
    /\ cks # <<>>
    /\ depth < Len(cks)
    /\ cks[depth + 1] # 0
    /\ d_ino # cks[depth + 1]

\* "Found matching cookie - clear it"
CookieCleared(cks, depth) ==
    IF cks # <<>> /\ depth < Len(cks) /\ cks[depth + 1] # 0
    THEN [cks EXCEPT ![depth + 1] = 0]
    ELSE cks

\* The exhaustion test: an unfulfilled cookie for this depth
CookiePending(cks, depth) ==
    /\ cks # <<>>
    /\ depth < Len(cks)
    /\ cks[depth + 1] # 0

\* A process_next_entry that prunes symlinks only
OpenIsPruned_EloopOnly(errno) == errno = "ELOOP"

\* errno values of openat2 on which process_next_entry prunes
OpenIsPruned(errno) == errno \in {"ELOOP", "EXDEV"}

\* A statx failure path that forgets the close
StatxFailure_NoClose(fds, fd) == OpenFd(fds, fd)

\* statx failed on the freshly opened fd: close(fd)
StatxFailure(fds, fd) == CloseFd(OpenFd(fds, fd), fd)

\* A filter that looks at the birth time of directories too
BtimeFiltered_Directories(st, cutoff) == cutoff # 0 /\ st.stx_btime > cutoff

\* if (!S_ISDIR(st.stx_mode) && self->state.btime_cutoff)
\*         if (st.stx_btime.tv_sec > self->state.btime_cutoff)
BtimeFiltered(st, cutoff) == ~st.stx_isdir /\ cutoff # 0 /\ st.stx_btime > cutoff

\* The entry is newer than the cutoff: close(fd)
BtimeSkip(fds, fd) == CloseFd(OpenFd(fds, fd), fd)

\* fdopendir failed on the duplicate: close(dup_fd)
FdopendirFailure(fds, dupfd) == CloseFd(OpenFd(fds, dupfd), dupfd)

\* strdup of the path failed: closedir(dirp), which closes dup_fd
StrdupFailure(fds, dupfd) == CloseFd(OpenFd(fds, dupfd), dupfd)

\* process_next_entry(self, cur_dir, entry): n is the node the entry name
\* resolves to, fd the descriptor openat2 returns when it succeeds, oerr and
\* serr what openat2 and statx answer.
process_next_entry(l, fds, cutoff, name, n, fd, oerr, serr) ==
    LET named == [l EXCEPT !.name = name]
        st == Statx(n)
    IN  IF oerr # "ok"
        THEN [action |-> IF OpenIsPruned(oerr) THEN "FSITER_CONTINUE" ELSE "FSITER_ERROR",
              last |-> named, fds |-> fds, errno |-> oerr]
        ELSE IF serr # "ok"
        THEN [action |-> "FSITER_ERROR", last |-> named,
              fds |-> StatxFailure(fds, fd), errno |-> serr]
        ELSE IF BtimeFiltered(st, cutoff)
        THEN [action |-> "FSITER_CONTINUE", last |-> named,
              fds |-> BtimeSkip(fds, fd), errno |-> "ok"]
        ELSE [action |-> IF st.stx_isdir THEN "FSITER_YIELD_DIR" ELSE "FSITER_YIELD_FILE",
              last |-> [name |-> name, fd |-> fd, is_dir |-> st.stx_isdir, node |-> n, st |-> st],
              fds |-> OpenFd(fds, fd), errno |-> "ok"]

\* A push that puts the new frame below the current one
PushFrame_BelowTop(stk, new_dir) ==
    IF Len(stk) = 0 THEN <<new_dir>>
    ELSE SubSeq(stk, 1, Len(stk) - 1) \o <<new_dir, stk[Len(stk)]>>

\* The frames after a successful push of new_dir
PushFrame(stk, new_dir) == Append(stk, new_dir)

\* push_dir_stack(self, cur_dir): dupfd is the descriptor dup returns when it
\* succeeds, perr the call that fails ("ok": none)
push_dir_stack(stk, fds, l, cur_dir, dupfd, perr) ==
    LET full_path == PathJoin(cur_dir.path, l.name)
    IN  IF Len(stk) >= MAX_DEPTH
        THEN [ok |-> FALSE, stack |-> stk, fds |-> fds, why |-> "max depth exceeded", path |-> full_path]
        ELSE IF perr = "dup"
        THEN [ok |-> FALSE, stack |-> stk, fds |-> fds, why |-> "dup", path |-> full_path]
        ELSE IF perr = "fdopendir"
        THEN [ok |-> FALSE, stack |-> stk,
              fds |-> FdopendirFailure(fds, dupfd),
              why |-> "fdopendir", path |-> full_path]
        ELSE IF perr = "strdup"
        THEN [ok |-> FALSE, stack |-> stk,
              fds |-> StrdupFailure(fds, dupfd),
              why |-> "strdup", path |-> full_path]
        ELSE [ok |-> TRUE,
              stack |-> PushFrame(stk, [path |-> full_path,
                                        dirp |-> [fd |-> dupfd, dir |-> l.node, pos |-> 0],
                                        ino |-> l.st.stx_ino]),
              fds |-> OpenFd(fds, dupfd),
              why |-> "", path |-> full_path]

\* A restore error that reports the depth of the parent frame
set_iterator_restore_error_ParentDepth(depth, path) ==
    [kind |-> "IteratorRestoreError", node |-> 0, depth |-> depth - 1, path |-> path,
     why |-> "restore"]

\* set_iterator_restore_error(self->cur_depth, cur_dir->path)
set_iterator_restore_error(depth, path) ==
    Res("IteratorRestoreError", 0, depth, path, "restore")

\* What first_raise keeps of a step that raised
Raise(nyield, res) == [at |-> nyield, kind |-> res.kind, why |-> res.why]

NoRaise == [at |-> -1, kind |-> "", why |-> ""]

\* A callback test that does not look at the increment
ReportingDue_IgnoreIncrement(cb, inc, st) == cb

\* check_and_invoke_reporting_callback: the callback is called
ReportingDue(cb, inc, st) == cb /\ inc # 0 /\ st.cnt % inc = 0

\* A directory that is returned without being counted
CountDir_NoCount(st) == st

\* self->state.cnt += 1;  for a directory that is returned
CountDir(st) == [st EXCEPT !.cnt = @ + 1]

\* A file whose size is left out of the total
CountFile_NoBytes(st, stx_size) == [st EXCEPT !.cnt = @ + 1]

\* self->state.cnt += 1; self->state.cnt_bytes += self->last.st.stx_size;
CountFile(st, stx_size) == [st EXCEPT !.cnt = @ + 1, !.cnt_bytes = @ + stx_size]

\* A step that returns the entry whatever the callback did
AfterCallback_Ignore(failed) == "return"

\* if (!check_and_invoke_reporting_callback(...)) { Py_DECREF(result); return NULL; }
AfterCallback(failed) == IF failed THEN "raise" ELSE "return"

\* One turn of the loop, as the trace keeps it: the directory read, the entry
\* (0: end of directory, negative: "." or ".."), what the turn did, the errno
\* of its open, whether a cookie was still unmatched at this depth before
\* the turn, and the iterator's depth, count and number of yields after it.
\* The first event of a call is its "begin" (entry: the directory skip() was
\* called on right after its yield, or 0).
Ev(dir, entry, act, errno) ==
    [dir |-> dir, entry |-> entry, act |-> act, errno |-> errno,
     pending |-> (cur_depth < Len(cookies) /\ cookies[cur_depth + 1] # 0),
     depth |-> Len(dir_stack'), cnt |-> state'.cnt, cnt_bytes |-> state'.cnt_bytes,
     nyield |-> Len(history')]

-----------------------------------------------------------------------------
(* Construction *)

FirstFd == 3

\* Snapshots that did not come from an iterator over this tree: a snapshot of
\* another state of the tree, or one whose directories were since replaced.
\* Only the inodes are read; cookies[0] stands for the root and is never compared.
ArbitrarySnaps ==
    LET S(inos) == [i \in 1 .. Len(inos) |-> [path |-> 0, ino |-> inos[i]]]
    IN  { S(<<1, MissingIno>>), S(<<1, 2, MissingIno>>), S(<<1, 10>>),
          S(<<1, 7>>), S(<<1, 10, 5>>) }

\* How iter_filesystem_contents is called: btime_cutoff, the initial counters
\* and the reporting arguments
Conf(cutoff, cnt, bytes, inc, cb) ==
    [st0 |-> [btime_cutoff |-> cutoff, cnt |-> cnt, cnt_bytes |-> bytes,
              file_open_flags |-> "O_RDONLY"],
     inc |-> inc, cb |-> cb]

DefaultConf == Conf(0, 0, 0, 0, FALSE)

\* iter_filesystem_contents(..., file_open_flags=O_PATH | O_NOFOLLOW)
ConfPath == [DefaultConf EXCEPT !.st0.file_open_flags = "O_PATH|O_NOFOLLOW"]

Cutoffs == {0, 2}

\* The reporting increment the runs with a callback use
Increment == 2

Confs ==
    {Conf(c, 0, 0, 0, FALSE) : c \in Cutoffs} \cup
    {Conf(0, 0, 0, Increment, TRUE), Conf(0, 1, 4, Increment, TRUE),
     Conf(0, 0, 0, 0, TRUE), Conf(2, 1, 4, Increment, FALSE), ConfPath}

InitWith(tree, g, S, conf) ==
    LET it == create_filesystem_iterator(S, conf.st0, conf.inc, conf.cb, FirstFd)
    IN  /\ fs = tree
        /\ pc = "idle"
        /\ dir_stack = it.dir_stack
        /\ last = it.last
        /\ skip_next_recursion = it.skip_next_recursion
        /\ cookies = it.cookies
        /\ restoring_from_cookie = it.restoring_from_cookie
        /\ state = it.state
        /\ reporting_cb_increment = it.reporting_cb_increment
        /\ reporting_cb = it.reporting_cb
        /\ initial = [cnt |-> conf.st0.cnt, cnt_bytes |-> conf.st0.cnt_bytes]
        /\ direntp = NoDirent
        /\ result = NoResult
        /\ skip_ret = "none"
        /\ openFds = it.openFds
        /\ nextFd = FirstFd + 1
        /\ faults = 0
        /\ history = <<>>
        /\ trace = <<>>
        /\ gen = g
        /\ snap = S
        /\ skipped = {}
        /\ raised = FALSE
        /\ cb_log = <<>>
        /\ first_raise = NoRaise

Init ==
    /\ \/ \E c \in Confs : InitWith("small", "fresh", <<>>, c)
       \/ \E c \in Cutoffs, S \in ArbitrarySnaps :
             InitWith("small", "arbitrary", S, Conf(c, 0, 0, 0, FALSE))
    /\ AclIdle

\* A fresh iterator on the chain
InitChain == InitWith("chain", "fresh", <<>>, DefaultConf) /\ AclIdle

-----------------------------------------------------------------------------
(* FilesystemIterator.__next__ *)

\* The head of __next__: close the previous entry's fd, honour skip()
Next_Begin ==
    /\ pc = "idle"
    /\ LET fds1 == ClosePrevious(openFds, last)
           doPop == PopOnSkip(skip_next_recursion, cur_depth)
           afterDir == IF skip_next_recursion /\ result.kind = "yield" /\ result.why = "dir"
                       THEN result.node ELSE 0
       IN  /\ last' = [last EXCEPT !.fd = -1]
           /\ skip_next_recursion' = FALSE
           /\ dir_stack' = IF doPop THEN pop_dir_stack(dir_stack) ELSE dir_stack
           /\ openFds' = IF doPop THEN pop_dir_stack_fds(dir_stack, fds1) ELSE fds1
           /\ state' = state
           /\ history' = history
           /\ trace' = << [Ev(0, afterDir, "begin", "") EXCEPT !.depth = cur_depth] >> \o
                       (IF doPop THEN << Ev(Top(dir_stack).dirp.dir, 0, "skip_pop", "") >> ELSE <<>>)
    /\ pc' = "loop"
    /\ result' = NoResult
    /\ skip_ret' = "none"
    /\ UNCHANGED <<fs, cookies, restoring_from_cookie, direntp, nextFd, faults,
                   gen, snap, skipped, raised>>
    /\ UNCHANGED <<reporting_cb_increment, reporting_cb, initial>>
    /\ UNCHANGED acl_vars
    /\ UNCHANGED <<cb_log, first_raise>>

\* while (self->cur_depth > 0) is false: StopIteration
Next_Stop ==
    /\ pc = "loop"
    /\ cur_depth = 0
    /\ pc' = "idle"
    /\ result' = Res("StopIteration", 0, 0, 0, "")
    /\ UNCHANGED <<fs, dir_stack, last, skip_next_recursion, cookies,
                   restoring_from_cookie, state, direntp, skip_ret, openFds,
                   nextFd, faults, history, trace, gen, snap, skipped, raised>>
    /\ UNCHANGED <<reporting_cb_increment, reporting_cb, initial>>
    /\ UNCHANGED acl_vars
    /\ UNCHANGED <<cb_log, first_raise>>

\* FSITER_ASSERT fails: a failed assertion is fatal, the process is aborted
FSITER_ASSERT_Fatal == TRUE

\* FSITER_ASSERT(self->cur_depth < MAX_DEPTH) at the head of a loop turn fails
Next_AssertAbort ==
    /\ pc = "loop"
    /\ cur_depth > 0
    /\ ~FsiterAssertHolds(cur_depth)
    /\ FSITER_ASSERT_Fatal
    /\ pc' = "aborted"
    /\ result' = Res("abort", 0, cur_depth, Top(dir_stack).path, "Iterator depth exceeded MAX_DEPTH")
    /\ UNCHANGED <<fs, dir_stack, last, skip_next_recursion, cookies,
                   restoring_from_cookie, state, direntp, skip_ret, openFds,
                   nextFd, faults, history, trace, gen, snap, skipped, raised>>
    /\ UNCHANGED <<reporting_cb_increment, reporting_cb, initial>>
    /\ UNCHANGED acl_vars
    /\ UNCHANGED <<cb_log, first_raise>>

InLoop ==
    /\ pc = "loop"
    /\ cur_depth > 0
    /\ FsiterAssertHolds(cur_depth) \/ ~FSITER_ASSERT_Fatal

\* The directory the top frame's stream reads (dirfd(cur_dir->dirp))
CurDirNode == Top(dir_stack).dirp.dir

\* readdir fails with errno set: OSError
Next_ReaddirFail ==
    /\ InLoop
    /\ fs = "small"
    /\ faults < MaxFaults
    /\ faults' = faults + 1
    /\ pc' = "idle"
    /\ result' = Res("OSError", 0, cur_depth, Top(dir_stack).path, "readdir")
    /\ raised' = TRUE
    /\ state' = state /\ history' = history /\ dir_stack' = dir_stack
    /\ trace' = Append(trace, Ev(CurDirNode, 0, "readdir_error", "EIO"))
    /\ UNCHANGED <<fs, last, skip_next_recursion, cookies, restoring_from_cookie,
                   direntp, skip_ret, openFds, nextFd, gen, snap, skipped>>
    /\ UNCHANGED <<reporting_cb_increment, reporting_cb, initial>>
    /\ UNCHANGED acl_vars
    /\ cb_log' = cb_log
    /\ first_raise' = IF first_raise.at < 0 THEN Raise(Len(history), result') ELSE first_raise

\* What closedir can answer in a pop: success, or a failure nobody looks at
PopErrnos == {""} \cup (IF fs = "small" /\ faults < MaxFaults THEN {"EIO"} ELSE {})

\* A pop that raises when closedir fails
AfterPop_Raise(cerr) == IF cerr = "" THEN "loop" ELSE "idle"

\* What a step does after a pop, whatever closedir answered: "continue"
AfterPop(cerr) == "loop"

\* readdir returns NULL with errno 0: the directory is exhausted
Next_ReaddirEof ==
    /\ InLoop
    /\ Top(dir_stack).dirp.pos = StreamLen(CurDirNode)
    /\ state' = state /\ history' = history
    /\ IF CookiePending(cookies, cur_depth)
       THEN /\ result' = set_iterator_restore_error(cur_depth, Top(dir_stack).path)
            /\ raised' = TRUE
            /\ pc' = "idle"
            /\ dir_stack' = dir_stack
            /\ openFds' = openFds
            /\ faults' = faults
            /\ trace' = Append(trace, Ev(CurDirNode, 0, "restore_error", ""))
       ELSE \E cerr \in PopErrnos :
            /\ result' = IF AfterPop(cerr) = "loop" THEN result
                         ELSE Res("OSError", 0, cur_depth, Top(dir_stack).path, "closedir")
            /\ raised' = (raised \/ AfterPop(cerr) # "loop")
            /\ pc' = AfterPop(cerr)
            /\ dir_stack' = pop_dir_stack(dir_stack)
            /\ openFds' = pop_dir_stack_fds(dir_stack, openFds)
            /\ faults' = IF cerr = "" THEN faults ELSE faults + 1
            /\ trace' = Append(trace, Ev(CurDirNode, 0, "pop", cerr))
    /\ UNCHANGED <<fs, last, skip_next_recursion, cookies, restoring_from_cookie,
                   direntp, skip_ret, nextFd, gen, snap, skipped>>
    /\ UNCHANGED <<reporting_cb_increment, reporting_cb, initial>>
    /\ UNCHANGED acl_vars
    /\ cb_log' = cb_log
    /\ first_raise' = IF first_raise.at < 0 /\ raised' THEN Raise(Len(history), result') ELSE first_raise

ISDOT(name) == name = "."

ISDOTDOT(name) == name = ".."

\* readdir returns an entry: the dot test and the cookie test
Next_ReaddirEntry ==
    /\ InLoop
    /\ Top(dir_stack).dirp.pos < StreamLen(CurDirNode)
    /\ LET pos == Top(dir_stack).dirp.pos + 1
           de  == Dirent(CurDirNode, pos)
       IN  /\ dir_stack' = [dir_stack EXCEPT ![cur_depth].dirp.pos = pos]
           /\ state' = state /\ history' = history
           /\ IF ISDOT(de.d_name) \/ ISDOTDOT(de.d_name)
              THEN /\ pc' = "loop"
                   /\ UNCHANGED <<cookies, direntp>>
                   /\ trace' = Append(trace, Ev(CurDirNode, 0 - pos, "dot", ""))
              ELSE IF CookieMismatch(cookies, cur_depth, de.d_ino)
              THEN /\ pc' = "loop"
                   /\ UNCHANGED <<cookies, direntp>>
                   /\ trace' = Append(trace, Ev(CurDirNode, Kids(CurDirNode)[pos - 2], "cookie_skip", ""))
              ELSE /\ pc' = "entry"
                   /\ cookies' = CookieCleared(cookies, cur_depth)
                   /\ direntp' = de
                   /\ trace' = trace
    /\ UNCHANGED <<fs, last, skip_next_recursion, restoring_from_cookie, result,
                   skip_ret, openFds, nextFd, faults, gen, snap, skipped, raised>>
    /\ UNCHANGED <<reporting_cb_increment, reporting_cb, initial>>
    /\ UNCHANGED acl_vars
    /\ UNCHANGED <<cb_log, first_raise>>

\* The failures that can be injected into the turn that processes node n
Injections(n) ==
    {"none"} \cup
    IF fs = "small" /\ faults < MaxFaults
    THEN {"open_EACCES", "open_EINTR"} \cup
         (IF OpenErrno(n) = "ok" THEN {"statx_EIO", "statx_EINTR", "alloc"} ELSE {}) \cup
         (IF Kind(n) = "dir" THEN {"dup", "fdopendir", "strdup"} ELSE {}) \cup
         (IF ReportingDue(reporting_cb, reporting_cb_increment, [state EXCEPT !.cnt = @ + 1])
          THEN {"callback"} ELSE {})
    ELSE {}

\* The yielded IterInstance, as the history keeps it
Yielded(n, l, cur_dir) ==
    [node |-> n, fd |-> l.fd, parent |-> cur_dir.path, name |-> l.name,
     isdir |-> l.is_dir, size |-> l.st.stx_size]

\* One call of process_next_entry and the switch that follows it.  inj is the
\* failure injected into this turn and sig whether PyErr_CheckSignals finds a
\* pending signal after an EINTR.
Next_Entry ==
    /\ pc = "entry"
    /\ LET cur_dir == Top(dir_stack)
           n == Lookup(CurDirNode, direntp.d_name)
       IN  \E inj \in Injections(n), sig \in BOOLEAN :
           LET oerr == CASE inj = "open_EACCES" -> "EACCES"
                         [] inj = "open_EINTR"  -> "EINTR"
                         [] OTHER               -> OpenErrno(n)
               serr == CASE inj = "statx_EIO"   -> "EIO"
                         [] inj = "statx_EINTR" -> "EINTR"
                         [] OTHER               -> "ok"
               r == process_next_entry(last, openFds, state.btime_cutoff,
                                       direntp.d_name, n, nextFd, oerr, serr)
               perr == IF inj \in {"dup", "fdopendir", "strdup"} THEN inj ELSE "ok"
               p == push_dir_stack(dir_stack, r.fds, r.last, cur_dir, nextFd + 1, perr)
               allocFails == inj = "alloc"
               cbFails == inj = "callback"
               stFile == CountFile(state, r.last.st.stx_size)
               stDir == CountDir(state)
               Call(stk, st) == [dir_stack |-> build_dir_stack_tuple(stk),
                                 cnt |-> st.cnt, cnt_bytes |-> st.cnt_bytes,
                                 current_directory |-> cur_dir.path,
                                 nyield |-> Len(history), ok |-> ~cbFails]
               Reported(stk, st) ==
                   IF ReportingDue(reporting_cb, reporting_cb_increment, st)
                   THEN Append(cb_log, Call(stk, st)) ELSE cb_log
           IN  /\ (sig => r.action = "FSITER_ERROR" /\ r.errno = "EINTR")
               /\ (inj = "alloc" => r.action = "FSITER_YIELD_FILE"
                                    \/ (r.action = "FSITER_YIELD_DIR" /\ ~restoring_from_cookie))
               /\ (inj \in {"dup", "fdopendir", "strdup"} => r.action = "FSITER_YIELD_DIR")
               /\ (inj = "callback" => r.action = "FSITER_YIELD_FILE"
                                       \/ (r.action = "FSITER_YIELD_DIR" /\ ~restoring_from_cookie))
               /\ faults' = IF inj = "none" THEN faults ELSE faults + 1
               /\ nextFd' = nextFd + 2
               /\ last' = r.last
               /\ CASE r.action = "FSITER_ERROR" /\ r.errno = "EINTR" /\ ~sig ->
                        \* the do-while calls process_next_entry again
                        /\ pc' = "entry"
                        /\ openFds' = r.fds
                        /\ UNCHANGED <<dir_stack, state, history, result, cookies, restoring_from_cookie, cb_log>>
                        /\ trace' = Append(trace, Ev(CurDirNode, n, "eintr_retry", oerr))
                 [] r.action = "FSITER_ERROR" /\ ~(r.errno = "EINTR" /\ ~sig) ->
                        /\ pc' = "idle"
                        /\ openFds' = r.fds
                        /\ result' = Res("OSError", n, cur_depth, cur_dir.path,
                                         IF r.errno = "EINTR" THEN "signal"
                                         ELSE IF oerr # "ok" THEN "openat2" ELSE "statx")
                        /\ UNCHANGED <<dir_stack, state, history, cookies, restoring_from_cookie, cb_log>>
                        /\ trace' = Append(trace, Ev(CurDirNode, n, "error", oerr))
                 [] r.action = "FSITER_CONTINUE" ->
                        /\ pc' = "loop"
                        /\ openFds' = r.fds
                        /\ UNCHANGED <<dir_stack, state, history, result, cookies, restoring_from_cookie, cb_log>>
                        /\ trace' = Append(trace, Ev(CurDirNode, n,
                                           IF oerr # "ok" THEN "prune" ELSE "filtered", oerr))
                 [] r.action = "FSITER_YIELD_FILE" /\ allocFails ->
                        /\ pc' = "idle"
                        /\ openFds' = r.fds
                        /\ result' = Res("MemoryError", n, cur_depth, cur_dir.path, "create_iter_instance")
                        /\ UNCHANGED <<dir_stack, state, history, cookies, restoring_from_cookie, cb_log>>
                        /\ trace' = Append(trace, Ev(CurDirNode, n, "error", oerr))
                 [] r.action = "FSITER_YIELD_FILE" /\ ~allocFails ->
                        /\ pc' = "idle"
                        /\ openFds' = r.fds
                        /\ state' = stFile
                        /\ UNCHANGED <<dir_stack, cookies, restoring_from_cookie>>
                        /\ cb_log' = Reported(dir_stack, stFile)
                        /\ IF AfterCallback(cbFails) = "raise"
                           THEN /\ history' = history
                                /\ result' = Res("CallbackError", n, cur_depth, cur_dir.path, "callback")
                                /\ trace' = Append(trace, Ev(CurDirNode, n, "callback_error", oerr))
                           ELSE /\ history' = Append(history, Yielded(n, r.last, cur_dir))
                                /\ result' = Res("yield", n, cur_depth, cur_dir.path, "file")
                                /\ trace' = Append(trace, Ev(CurDirNode, n, "yield_file", oerr))
                 [] r.action = "FSITER_YIELD_DIR" /\ allocFails ->
                        /\ pc' = "idle"
                        /\ openFds' = r.fds
                        /\ result' = Res("MemoryError", n, cur_depth, cur_dir.path, "create_iter_instance")
                        /\ UNCHANGED <<dir_stack, state, history, cookies, restoring_from_cookie, cb_log>>
                        /\ trace' = Append(trace, Ev(CurDirNode, n, "error", oerr))
                 [] r.action = "FSITER_YIELD_DIR" /\ ~allocFails /\ ~p.ok ->
                        /\ pc' = "idle"
                        /\ openFds' = p.fds
                        /\ result' = Res("OSError", n, cur_depth, p.path, p.why)
                        /\ UNCHANGED <<dir_stack, state, history, cookies, restoring_from_cookie, cb_log>>
                        /\ trace' = Append(trace, Ev(CurDirNode, n, "error", oerr))
                 [] r.action = "FSITER_YIELD_DIR" /\ ~allocFails /\ p.ok /\ restoring_from_cookie ->
                        \* entered without being yielded
                        /\ pc' = "loop"
                        /\ openFds' = p.fds
                        /\ dir_stack' = p.stack
                        /\ IF Len(p.stack) >= cookie_sz
                           THEN restoring_from_cookie' = FALSE /\ cookies' = <<>>
                           ELSE UNCHANGED <<restoring_from_cookie, cookies>>
                        /\ UNCHANGED <<state, history, result, cb_log>>
                        /\ trace' = Append(trace, Ev(CurDirNode, n, "silent_push", oerr))
                 [] r.action = "FSITER_YIELD_DIR" /\ ~allocFails /\ p.ok /\ ~restoring_from_cookie ->
                        /\ pc' = "idle"
                        /\ openFds' = p.fds
                        /\ dir_stack' = p.stack
                        /\ state' = stDir
                        /\ cb_log' = Reported(p.stack, stDir)
                        /\ IF AfterCallback(cbFails) = "raise"
                           THEN /\ history' = history
                                /\ result' = Res("CallbackError", n, cur_depth, cur_dir.path, "callback")
                                /\ trace' = Append(trace, Ev(CurDirNode, n, "callback_error", oerr))
                           ELSE /\ history' = Append(history, Yielded(n, r.last, cur_dir))
                                /\ result' = Res("yield", n, cur_depth, cur_dir.path, "dir")
                                /\ trace' = Append(trace, Ev(CurDirNode, n, "yield_dir", oerr))
                        /\ UNCHANGED <<cookies, restoring_from_cookie>>
    /\ raised' = (raised \/ (pc' = "idle" /\ result'.kind # "yield"))
    /\ first_raise' = IF first_raise.at < 0 /\ pc' = "idle" /\ result'.kind # "yield"
                      THEN Raise(Len(history), result') ELSE first_raise
    /\ UNCHANGED <<reporting_cb_increment, reporting_cb, initial>>
    /\ UNCHANGED acl_vars
    /\ UNCHANGED <<fs, skip_next_recursion, direntp, skip_ret, gen, snap, skipped>>

-----------------------------------------------------------------------------
(* The other methods *)

\* FilesystemIterator.skip()
Skip ==
    /\ pc = "idle"
    /\ IF ~last.is_dir
       THEN skip_ret' = "ValueError" /\ UNCHANGED <<skip_next_recursion, skipped>>
       ELSE /\ skip_ret' = "None"
            /\ skip_next_recursion' = TRUE
            /\ skipped' = IF result.kind = "yield" /\ result.why = "dir"
                          THEN skipped \cup {result.node} ELSE skipped
    /\ UNCHANGED <<fs, pc, dir_stack, last, cookies, restoring_from_cookie, state,
                   direntp, result, openFds, nextFd, faults, history, trace, gen,
                   snap, raised>>
    /\ UNCHANGED <<reporting_cb_increment, reporting_cb, initial>>
    /\ UNCHANGED acl_vars
    /\ UNCHANGED <<cb_log, first_raise>>

RECURSIVE CloseStreams(_, _, _)
\* for (i = 0; i < self->cur_depth; i++) cleanup_iter_dir(&self->dir_stack[i])
CloseStreams(stk, fds, i) ==
    IF i > Len(stk) THEN fds
    ELSE CloseStreams(stk, cleanup_iter_dir(fds, stk[i]), i + 1)

\* The descriptors left open when the iterator object is freed
FilesystemIterator_dealloc(stk, fds, l) == CloseStreams(stk, fds, 1)

\* The last reference to the iterator is dropped
Dealloc ==
    /\ pc = "idle"
    /\ fs = "small"
    /\ pc' = "dead"
    /\ openFds' = FilesystemIterator_dealloc(dir_stack, openFds, last)
    /\ dir_stack' = <<>>
    /\ cookies' = <<>>
    /\ UNCHANGED <<fs, last, skip_next_recursion, restoring_from_cookie, state,
                   direntp, result, skip_ret, nextFd, faults, history, trace, gen,
                   snap, skipped, raised>>
    /\ UNCHANGED <<reporting_cb_increment, reporting_cb, initial>>
    /\ UNCHANGED acl_vars
    /\ UNCHANGED <<cb_log, first_raise>>

\* The caller takes S = dir_stack() of a fresh iterator that still has frames
\* and builds a second iterator with dir_stack = S over the same tree.  The
\* model follows the second iterator from here on.
Resume ==
    /\ pc = "idle"
    /\ fs = "small"
    /\ gen = "fresh"
    /\ cur_depth > 0
    /\ LET S == build_dir_stack_tuple(dir_stack)
           it == create_filesystem_iterator(S, [state EXCEPT !.cnt = initial.cnt,
                                                             !.cnt_bytes = initial.cnt_bytes],
                                            reporting_cb_increment, reporting_cb, FirstFd)
       IN  /\ dir_stack' = it.dir_stack
           /\ last' = it.last
           /\ skip_next_recursion' = it.skip_next_recursion
           /\ cookies' = it.cookies
           /\ restoring_from_cookie' = it.restoring_from_cookie
           /\ state' = it.state
           /\ openFds' = it.openFds
           /\ snap' = S
    /\ direntp' = NoDirent
    /\ result' = NoResult
    /\ skip_ret' = "none"
    /\ nextFd' = FirstFd + 1
    /\ history' = <<>>
    /\ trace' = <<>>
    /\ gen' = "resumed"
    /\ skipped' = {}
    /\ raised' = FALSE
    /\ cb_log' = <<>>
    /\ first_raise' = NoRaise
    /\ UNCHANGED <<fs, pc, faults>>
    /\ UNCHANGED <<reporting_cb_increment, reporting_cb, initial>>
    /\ UNCHANGED acl_vars

-----------------------------------------------------------------------------
(* Specifications *)

Next ==
    \/ Next_Begin
    \/ Next_Stop
    \/ Next_ReaddirFail
    \/ Next_ReaddirEof
    \/ Next_ReaddirEntry
    \/ Next_Entry
    \/ Skip
    \/ Dealloc
    \/ Resume

Spec == Init /\ [][Next]_vars

\* One fresh iteration that the caller drives to its end, on a system where
\* no call fails and no callback raises: next() is called again after every
\* return and every call runs to its return; skip() may be called between
\* two calls
NextStep ==
    /\ \/ Next_Begin
       \/ Next_Stop
       \/ Next_ReaddirEof
       \/ Next_ReaddirEntry
       \/ Next_Entry
    /\ faults' = 0

InitFresh ==
    /\ \E c \in Confs : InitWith("small", "fresh", <<>>, c)
    /\ AclIdle

NextFresh == NextStep \/ Skip

SpecFresh == InitFresh /\ [][NextFresh]_vars /\ WF_vars(NextStep)

\* A straight traversal of the chain: no skip(), no failures, no resume
NextDeep ==
    \/ Next_Begin
    \/ Next_AssertAbort
    \/ Next_ReaddirEntry
    \/ Next_Entry

\* The whole descent, from a fresh iterator on the root of the chain
SpecChain == InitChain /\ [][NextDeep]_vars

\* How many levels below MAX_DEPTH the deep runs start
DeepRun == 24

DeepStartDepth == MAX_DEPTH - DeepRun

\* Frame i of the descent of the chain when the stack has top frames
ChainFrame(i, top) ==
    [path |-> i,
     dirp |-> [fd |-> IF i = Root THEN FirstFd ELSE 2 * i + 1, dir |-> i,
               pos |-> IF i = top THEN 0 ELSE 3],
     ino |-> Ino(i)]

\* The descent of the chain just after directory k >= 3 was yielded: the state
\* of the iterator when __next__ has returned k - 1 times.  The observations
\* (history, trace) start empty here.
DeepState(k) ==
    [dir_stack |-> [i \in 1 .. k |-> ChainFrame(i, k)],
     last      |-> [name |-> "d", fd |-> 2 * k, is_dir |-> TRUE, node |-> k, st |-> Statx(k)],
     state     |-> [DefaultConf.st0 EXCEPT !.cnt = k - 1],
     direntp   |-> Dirent(k - 1, 3),
     result    |-> Res("yield", k, k - 1, k - 1, "dir"),
     openFds   |-> {FirstFd, 2 * k} \cup {2 * i + 1 : i \in 2 .. k},
     nextFd    |-> 2 * k + 2,
     history   |-> <<>>,
     trace     |-> <<>>]

\* In every state of the descent in which __next__ has just returned
\* directory DeepStartDepth the iterator is as DeepState(DeepStartDepth) says
DeepStateReached ==
    (fs = "chain" /\ pc = "idle" /\ cur_depth = DeepStartDepth /\ cur_depth >= 3) =>
        LET ds == DeepState(DeepStartDepth)
        IN  /\ dir_stack = ds.dir_stack /\ last = ds.last /\ state = ds.state
            /\ direntp = ds.direntp /\ result = ds.result /\ openFds = ds.openFds
            /\ nextFd = ds.nextFd
            /\ skip_next_recursion = FALSE /\ cookies = <<>>
            /\ restoring_from_cookie = FALSE /\ skip_ret = "none" /\ faults = 0
            /\ gen = "fresh" /\ snap = <<>> /\ skipped = {} /\ raised = FALSE
            /\ reporting_cb_increment = 0 /\ reporting_cb = FALSE
            /\ initial = [cnt |-> 0, cnt_bytes |-> 0]

\* The descent of the chain, taken up DeepRun levels before MAX_DEPTH
InitDeep ==
    /\ fs = "chain"
    /\ pc = "idle"
    /\ LET ds == DeepState(DeepStartDepth)
       IN  /\ dir_stack = ds.dir_stack /\ last = ds.last /\ state = ds.state
           /\ direntp = ds.direntp /\ result = ds.result /\ openFds = ds.openFds
           /\ nextFd = ds.nextFd /\ history = ds.history /\ trace = ds.trace
    /\ skip_next_recursion = FALSE
    /\ cookies = <<>>
    /\ restoring_from_cookie = FALSE
    /\ skip_ret = "none"
    /\ faults = 0
    /\ gen = "fresh"
    /\ snap = <<>>
    /\ skipped = {}
    /\ raised = FALSE
    /\ reporting_cb_increment = 0
    /\ reporting_cb = FALSE
    /\ initial = [cnt |-> 0, cnt_bytes |-> 0]
    /\ cb_log = <<>>
    /\ first_raise = NoRaise
    /\ AclIdle

SpecDeep == InitDeep /\ [][NextDeep]_vars

-----------------------------------------------------------------------------
(* The ACL operations *)

\* The acl_flags a caller gives
AclFlagsGiven == {0, ACL_AUTO_INHERIT}

\* acl = NFS4ACL.from_aces(aces_arg, acl_flags)
Call_from_aces ==
    /\ acl.kind = "none"
    /\ \E acl_flags \in AclFlagsGiven :
          acl' = [kind |-> "from_aces", data |-> NFS4ACL_from_aces(aces_arg, acl_flags),
                  is_dir |-> FALSE]
    /\ UNCHANGED <<aces_arg, inherited, valid>>
    /\ UNCHANGED <<iter_vars, posix_vars, fgetacl_vars, sys_vars>>

\* acl = NFS4ACL(data), with data the blob of a directory that holds the
\* ACEs of aces_arg in that order
Call_NFS4ACL_init ==
    /\ acl.kind = "none"
    /\ acl' = [kind |-> "init", data |-> Blob(NFS4_ACL_IS_DIR, aces_arg), is_dir |-> TRUE]
    /\ UNCHANGED <<aces_arg, inherited, valid>>
    /\ UNCHANGED <<iter_vars, posix_vars, fgetacl_vars, sys_vars>>

\* inherited = acl.generate_inherited_acl(is_dir)
Call_generate_inherited_acl ==
    /\ acl.kind # "none"
    /\ inherited.kind = "none"
    /\ valid.ret = "none"
    /\ \E is_dir \in BOOLEAN :
          inherited' = NFS4ACL_generate_inherited_acl(acl.data, is_dir)
    /\ UNCHANGED <<aces_arg, acl, valid>>
    /\ UNCHANGED <<iter_vars, posix_vars, fgetacl_vars, sys_vars>>

\* The blobs handed to the validator: the data of the ACL, the same cut
\* short of its last slot, and the empty bytes of NFS4ACL(b"")
BlobsOf(data) ==
    {data, <<>>} \cup
    (IF Len(data) >= NFS4_HDR_SZ + NFS4_ACE_SZ
     THEN {SubSeq(data, 1, Len(data) - NFS4_ACE_SZ)} ELSE {})

\* The targets: no fd, a directory, a regular file, an fd fstat fails on
Targets == {"none", "dir", "file", "bad"}

\* nfs4acl_valid(fd, data, len) on the data of acl.  The validator and
\* generate_inherited_acl read the same immutable bytes and do not affect
\* each other: a run makes one of the two calls.
Call_nfs4acl_valid ==
    /\ acl.kind # "none"
    /\ valid.ret = "none"
    /\ inherited.kind = "none"
    /\ \E fd \in Targets, data \in BlobsOf(acl.data) :
          valid' = [fd |-> fd, data |-> data, ret |-> nfs4acl_valid(fd, data)]
    /\ UNCHANGED <<aces_arg, acl, inherited>>
    /\ UNCHANGED <<iter_vars, posix_vars, fgetacl_vars, sys_vars>>

InitAcl ==
    /\ InitWith("small", "fresh", <<>>, DefaultConf)
    /\ aces_arg \in AceLists
    /\ acl = NoAcl
    /\ inherited = NoAcl
    /\ valid = NotValidated
    /\ PosixIdle
    /\ FgetaclIdle
    /\ SysIdle

NextAcl ==
    \/ Call_from_aces
    \/ Call_NFS4ACL_init
    \/ Call_generate_inherited_acl
    \/ Call_nfs4acl_valid

SpecAcl == InitAcl /\ [][NextAcl]_vars

-----------------------------------------------------------------------------
(* POSIX ACL operations *)

\* The entries the lists given to from_aces are made of: access and default
\* entries, named entries whose ids are out of order between them, an id of
\* more than two bytes, and a USER_OBJ-like entry that was given an id
PosixAceDomain ==
    { POSIXAce(POSIX_TAG_USER_OBJ, POSIX_PERM_READ + POSIX_PERM_WRITE, -1, FALSE),
      POSIXAce(POSIX_TAG_USER, POSIX_PERM_READ, 1000, FALSE),
      POSIXAce(POSIX_TAG_USER, POSIX_PERM_WRITE, 5, FALSE),
      POSIXAce(POSIX_TAG_OTHER, 0, -1, FALSE),
      POSIXAce(POSIX_TAG_GROUP_OBJ, POSIX_PERM_READ, 1000, FALSE),
      POSIXAce(POSIX_TAG_USER_OBJ,
               POSIX_PERM_READ + POSIX_PERM_WRITE + POSIX_PERM_EXECUTE, -1, TRUE),
      POSIXAce(POSIX_TAG_GROUP, POSIX_PERM_READ + POSIX_PERM_EXECUTE, 70000, TRUE),
      POSIXAce(POSIX_TAG_OTHER, POSIX_PERM_READ, -1, TRUE) }

\* The entries whole ACLs are made of: one of each tag, and a named USER
\* that was given no uid
EntryDomain(default_) ==
    { POSIXAce(POSIX_TAG_USER_OBJ, POSIX_PERM_READ + POSIX_PERM_WRITE, -1, default_),
      POSIXAce(POSIX_TAG_USER, POSIX_PERM_READ, 1000, default_),
      POSIXAce(POSIX_TAG_USER, POSIX_PERM_READ, -1, default_),
      POSIXAce(POSIX_TAG_GROUP_OBJ, POSIX_PERM_READ, -1, default_),
      POSIXAce(POSIX_TAG_GROUP, POSIX_PERM_READ + POSIX_PERM_EXECUTE, 70000, default_),
      POSIXAce(POSIX_TAG_MASK, POSIX_PERM_READ + POSIX_PERM_EXECUTE, -1, default_),
      POSIXAce(POSIX_TAG_OTHER, 0, -1, default_) }

\* The lists of up to MaxEntries such entries that are in canonical order
CanonicalLists(default_) ==
    UNION { {s \in [1 .. n -> EntryDomain(default_)] :
                \A i \in 1 .. n - 1 : ~POSIXAce_richcompare_LT(s[i + 1], s[i])} :
            n \in 0 .. MaxEntries }

\* The lists of POSIXAce a caller passes: any short list, and whole ACLs in
\* canonical order: access entries, default entries, or the same entries
\* as both
PosixAceLists ==
    UNION {[1 .. n -> PosixAceDomain] : n \in 0 .. MaxPosixAces}
        \cup CanonicalLists(FALSE) \cup CanonicalLists(TRUE)
        \cup {s \o [i \in 1 .. Len(s) |-> [s[i] EXCEPT !.default_ = TRUE]] :
                 s \in CanonicalLists(FALSE)}

\* pacl = POSIXACL.from_aces(paces_arg)
Call_POSIXACL_from_aces ==
    /\ pacl.kind = "none"
    /\ pacl' = POSIXACL_from_aces(paces_arg)
    /\ UNCHANGED <<paces_arg, pinherited, pvalid>>
    /\ UNCHANGED <<iter_vars, nfs4_vars, fgetacl_vars, sys_vars>>

\* pacl = POSIXACL(access_data, default_data) from raw xattr bytes, as
\* POSIXACL_from_xattr_bytes builds it: an absent access xattr is b"", an
\* absent default xattr is None; the bytes are those of the entries of
\* paces_arg in that order
Call_POSIXACL_init ==
    /\ pacl.kind = "none"
    /\ \E access_absent \in BOOLEAN, default_none \in BOOLEAN :
          pacl' = POSIXACL("init",
                           IF access_absent THEN <<>> ELSE encode_posix_aces(paces_arg),
                           default_none, encode_posix_aces(paces_arg), FALSE)
    /\ UNCHANGED <<paces_arg, pinherited, pvalid>>
    /\ UNCHANGED <<iter_vars, nfs4_vars, fgetacl_vars, sys_vars>>

\* pinherited = pacl.generate_inherited_acl(is_dir)
Call_POSIXACL_generate_inherited_acl ==
    /\ pacl.kind # "none"
    /\ pinherited.kind = "none"
    /\ pvalid.ret = "none"
    /\ \E is_dir \in BOOLEAN :
          pinherited' = POSIXACL_generate_inherited_acl(pacl, is_dir)
    /\ UNCHANGED <<paces_arg, pacl, pvalid>>
    /\ UNCHANGED <<iter_vars, nfs4_vars, fgetacl_vars, sys_vars>>

\* The targets: a directory, a regular file, an fd fstat fails on
PosixTargets == {"dir", "file", "bad"}

\* posixacl_valid(fd, ...) on the xattr bytes of pacl.  The validator and
\* generate_inherited_acl read the same immutable bytes and do not affect
\* each other: a run makes one of the two calls.
Call_posixacl_valid ==
    /\ pacl.kind # "none"
    /\ pvalid.ret = "none"
    /\ pinherited.kind = "none"
    /\ \E fd \in PosixTargets :
          pvalid' = [fd |-> fd, on |-> "pacl", ret |-> posixacl_valid(fd, pacl)]
    /\ UNCHANGED <<paces_arg, pacl, pinherited>>
    /\ UNCHANGED <<iter_vars, nfs4_vars, fgetacl_vars, sys_vars>>

InitPosix ==
    /\ InitWith("small", "fresh", <<>>, DefaultConf)
    /\ Nfs4Idle
    /\ FgetaclIdle
    /\ SysIdle
    /\ paces_arg \in PosixAceLists
    /\ pacl = NoPosixAcl
    /\ pinherited = NoPosixAcl
    /\ pvalid = PosixNotValidated

NextPosix ==
    \/ Call_POSIXACL_from_aces
    \/ Call_POSIXACL_init
    \/ Call_POSIXACL_generate_inherited_acl
    \/ Call_posixacl_valid

SpecPosix == InitPosix /\ [][NextPosix]_vars

-----------------------------------------------------------------------------
(* The codecs: from_aces of either kind of ACL *)

InitCodec ==
    \/ InitAcl
    \/ InitPosix

NextCodec ==
    \/ Call_from_aces
    \/ Call_POSIXACL_from_aces

SpecCodec == InitCodec /\ [][NextCodec]_vars

-----------------------------------------------------------------------------
(* fgetacl *)

\* do_fgetacl(fd, &out)
Call_do_fgetacl ==
    /\ acl_out.ret = "none"
    /\ acl_out' = do_fgetacl(xattr)
    /\ UNCHANGED xattr
    /\ UNCHANGED <<iter_vars, nfs4_vars, posix_vars, sys_vars>>

InitFgetacl ==
    /\ InitWith("small", "fresh", <<>>, DefaultConf)
    /\ Nfs4Idle
    /\ PosixIdle
    /\ SysIdle
    /\ xattr \in [nfs4 : XattrAnswers, access : XattrAnswers, default_ : XattrAnswers]
    /\ acl_out = NotFetched

NextFgetacl == Call_do_fgetacl

SpecFgetacl == InitFgetacl /\ [][NextFgetacl]_vars

-----------------------------------------------------------------------------
(* fsetacl *)

\* do_fsetacl_posix(fd, ...) with the xattr bytes of a POSIXACL
Call_do_fsetacl_posix ==
    /\ fsetacl_call.ret = "none"
    /\ LET r == do_fsetacl_posix(store, fsetacl_call.default_null,
                                 fsetacl_call.access, fsetacl_call.default_)
       IN  /\ store' = r.store
           /\ fsetacl_call' = [fsetacl_call EXCEPT !.ret = r.res.ret, !.exc = r.res.exc,
                                                   !.errno = r.res.errno, !.calls = r.calls]
    /\ UNCHANGED <<iter_vars, nfs4_vars, posix_vars, fgetacl_vars, fhandle_vars, mount_vars>>

InitFsetacl ==
    /\ InitWith("small", "fresh", <<>>, DefaultConf)
    /\ Nfs4Idle
    /\ PosixIdle
    /\ FgetaclIdle
    /\ FhandleIdle
    /\ MountIdle
    /\ store \in [access : {"absent", "old"}, default_ : {"absent", "old"}]
    /\ \E default_null \in BOOLEAN, a \in Dispositions, d \in Dispositions :
          fsetacl_call = [NotSet EXCEPT !.default_null = default_null,
                                        !.access = a, !.default_ = d]

NextFsetacl == Call_do_fsetacl_posix

SpecFsetacl == InitFsetacl /\ [][NextFsetacl]_vars

-----------------------------------------------------------------------------
(* FileHandle.open *)

\* fh.open(mount_fd, flags)
Call_py_fhandle_open ==
    /\ open_call.ret = "none"
    /\ LET r == py_fhandle_open(fhandle, open_call.mount_fd, open_call.statx, open_call.open)
       IN  open_call' = [open_call EXCEPT !.ret = r.res.ret, !.exc = r.res.exc,
                                          !.errno = r.res.errno, !.calls = r.calls]
    /\ UNCHANGED <<iter_vars, nfs4_vars, posix_vars, fgetacl_vars, fsetacl_vars, fhandle, mount_vars>>

\* The handle is new (py_fhandle_new), was filled in by name_to_handle_at
\* or was built from bytes with a mount id the caller gave
InitFhandle ==
    /\ InitWith("small", "fresh", <<>>, DefaultConf)
    /\ Nfs4Idle
    /\ PosixIdle
    /\ FgetaclIdle
    /\ FsetaclIdle
    /\ MountIdle
    /\ fhandle \in [mount_id : LegacyMountIds \cup UniqueMountIds \cup {UINT64_MAX},
                    unique_mount_id : BOOLEAN]
    /\ \E fd \in [legacy : LegacyMountIds, unique : UniqueMountIds],
          sx \in Dispositions, op \in Dispositions :
          open_call = [NotOpened EXCEPT !.mount_fd = fd, !.statx = sx, !.open = op]

NextFhandle == Call_py_fhandle_open

SpecFhandle == InitFhandle /\ [][NextFhandle]_vars

-----------------------------------------------------------------------------
(* iter_mount *)

\* next(it) on a MountIterator
Call_mount_iter_next ==
    /\ requests # <<>>
    /\ \E answer \in ListmountAnswers(Len(requests)), sm \in {"ok", "ENOENT"} :
          LET r == mount_iter_next(mount_iter, mount_args.reverse, answer, sm)
          IN  /\ mount_iter' = r.self
              /\ mount_res' = r.res
              /\ requests' = requests \o r.request
    /\ UNCHANGED <<iter_vars, nfs4_vars, posix_vars, fgetacl_vars, fsetacl_vars,
                   fhandle_vars, mount_args>>

\* The iterator after mount_iter_init: the first request was made and has
\* been answered with a batch
InitMountIter ==
    /\ InitWith("small", "fresh", <<>>, DefaultConf)
    /\ Nfs4Idle
    /\ PosixIdle
    /\ FgetaclIdle
    /\ FsetaclIdle
    /\ FhandleIdle
    /\ mount_args \in [reverse : BOOLEAN, last_mnt_id : {0, 4000}]
    /\ requests = <<InitParam(mount_args.last_mnt_id, mount_args.reverse)>>
    /\ \E answer \in ListmountAnswers(0) :
          /\ answer.count >= 0
          /\ mount_iter = [param |-> requests[1], mnt_ids |-> answer.mnt_ids,
                           batch_count |-> answer.count, current_idx |-> 0]
    /\ mount_res = NoMountRes

NextMountIter == Call_mount_iter_next

SpecMountIter == InitMountIter /\ [][NextMountIter]_vars

-----------------------------------------------------------------------------
(* Properties *)

NoCallbackFailed == \A i \in 1 .. Len(cb_log) : cb_log[i].ok

C3_PruneIsSilent ==
    /\ \A i \in 1 .. Len(trace) :
          trace[i].errno \in {"ELOOP", "EXDEV"} =>
              /\ trace[i].act = "prune"
              /\ i > 1
              /\ trace[i].depth = trace[i - 1].depth
              /\ trace[i].cnt = trace[i - 1].cnt
              /\ trace[i].nyield = trace[i - 1].nyield
              /\ (i = Len(trace) => pc \in {"loop", "entry"})
              /\ (i < Len(trace) =>
                    /\ trace[i + 1].dir = trace[i].dir
                    /\ \/ trace[i + 1].entry = NextSibling(trace[i].entry)
                       \/ trace[i + 1].act = "readdir_error")
    /\ \A j \in 1 .. Len(history) : OpenErrno(history[j].node) \notin {"ELOOP", "EXDEV"}
    /\ \A j \in 1 .. Len(dir_stack) : Kind(dir_stack[j].dirp.dir) = "dir"

\* One call pruned the symlink b and the mount point c of the root and then
\* yielded f
C3_Witness ==
    /\ pc = "idle"
    /\ result.kind = "yield"
    /\ result.node = 10
    /\ \E i, j \in 1 .. Len(trace) :
          /\ i < j
          /\ trace[i].act = "prune" /\ trace[i].errno = "ELOOP" /\ trace[i].entry = 7
          /\ trace[j].act = "prune" /\ trace[j].errno = "EXDEV" /\ trace[j].entry = 8

\* C4: when skip() is called right after directory D was yielded, the next
\* step pops D's frame before it reads anything, then reads D's parent at
\* the sibling that follows D; no entry inside D is ever yielded.
C4_SkipPopsPendingFrame ==
    /\ \A j \in 1 .. Len(history) : \A D \in skipped : ~InSubtree(history[j].node, D)
    /\ (Len(trace) >= 1 /\ trace[1].entry # 0) =>
          /\ Len(trace) >= 2
          /\ trace[2].act = "skip_pop"
          /\ trace[2].dir = trace[1].entry
          /\ trace[2].depth = trace[1].depth - 1
          /\ trace[1].entry \in skipped
          /\ (Len(trace) >= 3 =>
                /\ trace[3].dir = Parent(trace[1].entry)
                /\ \/ trace[3].entry = NextSibling(trace[1].entry)
                   \/ trace[3].act = "readdir_error")

\* skip() was called on a/d right after its yield and the next call went on
\* to a/y, the sibling after it, without yielding a/d/z
C4_Witness ==
    /\ 5 \in skipped
    /\ Len(trace) >= 3
    /\ trace[1].entry = 5
    /\ trace[3].entry = 4
    /\ \A j \in 1 .. Len(history) : history[j].node # 6

\* C5: an iterator built from a snapshot descends along the cookies without
\* yielding and restoration clears as soon as cur_depth == len(cookies): an
\* iterator that is still restoring has fewer frames than the snapshot and
\* has yielded nothing, and every directory it entered without yielding is
\* one the snapshot names.
C5_RestoreClearsAtCookieDepth ==
    gen = "resumed" =>
        /\ restoring_from_cookie => (cur_depth < Len(snap) /\ history = <<>>)
        /\ \A i \in 1 .. Len(trace) :
              trace[i].act = "silent_push" =>
                  \E k \in 1 .. Len(snap) : snap[k].path = trace[i].entry

\* The directory the snapshot ends with
LastDir(S) == S[Len(S)].path

\* What process_next_entry lets through: a directory, or a file not newer
\* than the cutoff
Yieldable(n, cutoff) ==
    \/ Kind(n) = "dir"
    \/ Kind(n) \notin {"dir", "mount"} /\ OpenErrno(n) = "ok" /\ (cutoff = 0 \/ Btime(n) <= cutoff)

HasYieldable(d, cutoff) ==
    \E i \in 1 .. Len(Kids(d)) : Yieldable(Kids(d)[i], cutoff)

C7_RestoreErrorDepthAndPath ==
    /\ (pc = "idle" /\ result.kind = "IteratorRestoreError") =>
          /\ result.depth >= 1 /\ result.depth < Len(snap)
          /\ cookies[result.depth + 1] = snap[result.depth + 1].ino
          /\ result.depth = cur_depth
          /\ result.path = Top(dir_stack).path
          /\ result.path = CurDirNode
          /\ \A i \in 1 .. Len(Kids(result.path)) :
                Ino(Kids(result.path)[i]) # snap[result.depth + 1].ino
          /\ trace[Len(trace)].act = "restore_error"
    /\ \A i \in 1 .. Len(trace) :
          /\ trace[i].act = "pop" => ~trace[i].pending
          /\ trace[i].act = "restore_error" =>
                (trace[i].pending /\ i = Len(trace) /\ result.kind = "IteratorRestoreError")

\* The cookie for depth 2 names an inode that /a does not contain
C7_Witness ==
    /\ result.kind = "IteratorRestoreError"
    /\ result.depth = 2
    /\ result.path = 2
    /\ snap[3].ino = MissingIno

\* C8: a stack of exactly MAX_DEPTH frames is iterated normally by later
\* steps, and only the push of frame MAX_DEPTH + 1 fails, with the depth error.
C8_Depth2048Iterates ==
    /\ cur_depth = MAX_DEPTH => pc # "aborted"
    /\ cur_depth <= MAX_DEPTH

\* The fds the iterator object still refers to: the frames' streams and the
\* entry in self->last
OwnedFds ==
    {dir_stack[i].dirp.fd : i \in 1 .. Len(dir_stack)} \cup
    (IF last.fd >= 0 THEN {last.fd} ELSE {})

\* While the iterator lives, every descriptor it opened and has not closed
\* is a frame's stream or the last entry's fd: a popped frame's stream and an
\* entry abandoned before its yield are closed (iterations without resume)
C9_PopAndErrorPathsRelease ==
    (gen = "fresh" /\ pc # "dead") => openFds \subseteq OwnedFds

\* C9: the iterator releases what it holds: on frame pop and on the error
\* paths as above, and on destruction every stream and entry fd it still
\* owns, so that no descriptor it opened is open afterwards.
C9_ResourcesReleased ==
    /\ C9_PopAndErrorPathsRelease
    /\ pc = "dead" => openFds = {}

EntryErrors == {"openat2", "statx", "readdir"}

\* C11 as stated: once a step has raised an error from open, statx or
\* readdir, the iterator does not continue past it: it yields nothing more.
C11_ErrorIsFatalToIterator_AsStated ==
    (first_raise.kind = "OSError" /\ first_raise.why \in EntryErrors) =>
        Len(history) = first_raise.at

\* C11: a failure of closedir in a pop is ignored: the frame is popped and
\* the same step goes on (to StopIteration when it was the last frame); an error from open, statx or readdir ends the step
\* it occurs in: it is the last turn of the step, the step raises OSError and
\* yields nothing, and the stack is as the failing turn found it.
C11_ErrorEndsStepPopDoesNot ==
    \A i \in 1 .. Len(trace) :
        /\ (trace[i].act = "pop" /\ trace[i].errno # "") =>
              /\ i > 1
              /\ trace[i].depth = trace[i - 1].depth - 1
              /\ trace[i].nyield = trace[i - 1].nyield
              /\ (i = Len(trace) =>
                    \/ pc \in {"loop", "entry"} /\ result.kind = "none"
                    \/ result.kind = "StopIteration" /\ trace[i].depth = 0)
        /\ (trace[i].act \in {"error", "readdir_error"} /\ result.why \in EntryErrors) =>
              /\ i = Len(trace)
              /\ i > 1
              /\ pc \in {"idle", "dead"}
              /\ result.kind = "OSError"
              /\ trace[i].depth = trace[i - 1].depth
              /\ trace[i].nyield = trace[1].nyield
        /\ trace[i].act \in {"error", "readdir_error"} => i = Len(trace)

\* closedir failed when a/d was popped and the same step went on to yield f
C11_Witness ==
    /\ pc = "idle"
    /\ result.kind = "yield"
    /\ result.node = 10
    /\ \E i \in 1 .. Len(trace) :
          trace[i].act = "pop" /\ trace[i].errno = "EIO" /\ trace[i].dir = 5

\* C12: a call that fails with EINTR is made again on the same entry unless
\* a signal is pending; with a signal pending the step is abandoned and what
\* the caller receives is the cancellation (the exception the signal check
\* raised), not an error of the interrupted call.
C12_EintrRetriedOrCancelled ==
    /\ \A i \in 1 .. Len(trace) :
          trace[i].act = "eintr_retry" =>
              /\ trace[i].depth = trace[i - 1].depth
              /\ (i = Len(trace) => pc = "entry")
              /\ (i < Len(trace) => trace[i + 1].entry = trace[i].entry)
    /\ (pc = "idle" /\ result.why = "signal") => result.kind = "Cancelled"

\* C13: the reporting callback is called at exactly the yields that leave
\* cnt a multiple of reporting_increment: with a callback set and a non-zero
\* increment the k-th call is at the k-th multiple of the increment above
\* the initial cnt and there is one call for every multiple cnt has reached;
\* otherwise there is no call at all.  The call made by the step that just
\* returned carries the stack as it is after that yield (the yielded
\* directory's frame included), the counters and the directory being read.
C13_CallbackEveryIncrement ==
    /\ IF reporting_cb /\ reporting_cb_increment # 0
       THEN /\ Len(cb_log) = (state.cnt \div reporting_cb_increment)
                             - (initial.cnt \div reporting_cb_increment)
            /\ \A k \in 1 .. Len(cb_log) :
                  cb_log[k].cnt = ((initial.cnt \div reporting_cb_increment) + k)
                                  * reporting_cb_increment
       ELSE cb_log = <<>>
    /\ (/\ pc = "idle"
        /\ result.kind \in {"yield", "CallbackError"}
        /\ reporting_cb /\ reporting_cb_increment # 0
        /\ state.cnt % reporting_cb_increment = 0) =>
          LET c == cb_log[Len(cb_log)]
          IN  /\ c.cnt = state.cnt
              /\ c.cnt_bytes = state.cnt_bytes
              /\ c.current_directory = result.path
              /\ Len(c.dir_stack) = cur_depth
              /\ \A i \in 1 .. cur_depth :
                    c.dir_stack[i].path = dir_stack[i].path /\ c.dir_stack[i].ino = dir_stack[i].ino
              /\ (result.kind = "yield" /\ result.why = "dir") =>
                    c.dir_stack[cur_depth].path = result.node

\* Started with cnt = 1 and increment 2, the callback ran at cnt 2 and cnt 4,
\* the second time for the directory a/d
C13_Witness ==
    /\ pc = "idle"
    /\ initial.cnt = 1
    /\ Len(cb_log) = 2
    /\ cb_log[1].cnt = 2
    /\ cb_log[2].cnt = 4
    /\ state.cnt = 5
    /\ \E i \in 1 .. Len(history) : history[i].node = 5

FailedCalls == {k \in 1 .. Len(cb_log) : ~cb_log[k].ok}

\* The turns that count their entry
CountingActs == {"yield_file", "yield_dir", "callback_error"}

C16_BytesOfRegularFilesOnly ==
    \A i \in 2 .. Len(trace) :
        trace[i].entry > 0 =>
            /\ (trace[i].act = "yield_file" /\ Kind(trace[i].entry) = "file") =>
                  trace[i].cnt_bytes = trace[i - 1].cnt_bytes + Size(trace[i].entry)
            /\ Kind(trace[i].entry) # "file" =>
                  trace[i].cnt_bytes = trace[i - 1].cnt_bytes

\* The turns that went through openat2 and statx of their entry
StatedActs == {"filtered", "yield_file", "yield_dir", "silent_push", "callback_error"}

\* C17: with btime_cutoff = T > 0 every yielded non-directory was born at T
\* or before: a non-directory born later is skipped, its fd closed, nothing
\* counted or yielded for it, and a directory is never filtered.
C17_BtimeCutoffFiltersFiles ==
    state.btime_cutoff > 0 =>
        /\ \A j \in 1 .. Len(history) :
              ~history[j].isdir => Btime(history[j].node) <= state.btime_cutoff
        /\ \A i \in 2 .. Len(trace) :
              (trace[i].act \in StatedActs /\ trace[i].errno = "ok") =>
                  /\ trace[i].act = "filtered" <=>
                        (Kind(trace[i].entry) # "dir"
                         /\ Btime(trace[i].entry) > state.btime_cutoff)
                  /\ trace[i].act = "filtered" =>
                        /\ trace[i].depth = trace[i - 1].depth
                        /\ trace[i].cnt = trace[i - 1].cnt
                        /\ trace[i].cnt_bytes = trace[i - 1].cnt_bytes
                        /\ trace[i].nyield = trace[i - 1].nyield
                        /\ (i = Len(trace) =>
                              /\ pc = "loop"
                              /\ (nextFd - 2) \notin openFds)

\* With cutoff 2 the directory a/d, born at 3, was yielded, and the step after
\* it filtered a/d/z, born at 3 too, and went on to yield f
C17_Witness ==
    /\ state.btime_cutoff = 2
    /\ pc = "idle"
    /\ result.kind = "yield"
    /\ result.node = 10
    /\ Len(history) >= 2
    /\ history[Len(history) - 1].node = 5
    /\ \E i \in 1 .. Len(trace) : trace[i].act = "filtered" /\ trace[i].entry = 6

\* The last entry returned to the caller was a directory
LastYieldWasDir == Len(history) >= 1 /\ history[Len(history)].isdir

\* C18: skip() is legal only after a directory was yielded: when the last
\* yielded item was not a directory, or nothing was yielded yet, skip() raises
\* ValueError and requests no pop.
C18_SkipOnlyAfterDirectoryYield ==
    (skip_ret # "none" /\ ~LastYieldWasDir) =>
        (skip_ret = "ValueError" /\ ~skip_next_recursion)

\* Bit b (a power of two) of the word x is set
HasBit(x, b) == (x \div b) % 2 = 1

\* key(ace) := 2 * is_inherited(ace) + is_allow(ace)
CanonicalKey(a) ==
    2 * (IF HasBit(a.ace_flags, 128) THEN 1 ELSE 0) + (IF a.ace_type = 0 THEN 1 ELSE 0)

\* The ACEs of s in bucket k, in the order s has them
Bucket(s, k) ==
    LET T(a) == CanonicalKey(a) = k IN SelectSeq(s, T)

\* C19: NFS4ACL.from_aces sorts stably by key = 2*is_inherited + is_allow: in
\* the encoded ACL adjacent ACEs have ascending keys, the ACEs are a
\* permutation of the input, and ACEs of equal key keep their input order.
C19_FromAcesCanonicalStableSort ==
    acl.kind = "from_aces" =>
        LET out == NFS4ACL_get_aces(acl.data).aces
        IN  /\ ~NFS4ACL_get_aces(acl.data).raises
            /\ Len(acl.data) = 8 + 20 * Len(aces_arg)
            /\ Len(out) = Len(aces_arg)
            /\ \A i \in 1 .. Len(out) - 1 : CanonicalKey(out[i]) <= CanonicalKey(out[i + 1])
            /\ \A a \in AceDomain :
                  Cardinality({i \in 1 .. Len(out) : out[i] = a})
                      = Cardinality({i \in 1 .. Len(aces_arg) : aces_arg[i] = a})
            /\ \A k \in 0 .. 3 : Bucket(out, k) = Bucket(aces_arg, k)

\* An inherited allow, then two different explicit denies: the encoded ACL
\* has the two denies first, in the order given, then the inherited allow
C19_Witness ==
    /\ acl.kind = "from_aces"
    /\ Len(aces_arg) = 3
    /\ CanonicalKey(aces_arg[1]) = 3
    /\ CanonicalKey(aces_arg[2]) = 0
    /\ CanonicalKey(aces_arg[3]) = 0
    /\ aces_arg[2] # aces_arg[3]
    /\ NFS4ACL_get_aces(acl.data).aces = <<aces_arg[2], aces_arg[3], aces_arg[1]>>

\* The flag bits of a word, of those an ACE has
FlagBits(x) == {b \in {1, 2, 4, 8, 16, 32, 64, 128} : HasBit(x, b)}

\* The slots of a blob, in order
RawAces(data) == [i \in 1 .. be32toh(data, 1) |-> RawAce(data, i - 1)]

\* The parent ACEs a directory child inherits, in parent order
DirInheritable(s) ==
    LET T(r) == HasBit(r.ace_flags, 1) \/ HasBit(r.ace_flags, 2) IN SelectSeq(s, T)

\* C20: generate_inherited_acl for a directory child outputs, in parent
\* order, exactly the parent ACEs with FILE_INHERIT or DIRECTORY_INHERIT; one
\* with NO_PROPAGATE_INHERIT has all inherit bits stripped and INHERITED set,
\* any other has INHERIT_ONLY cleared, FILE_INHERIT/DIRECTORY_INHERIT kept and
\* INHERITED set; type, mask and who are unchanged, and acl_flags has
\* ACL_IS_DIR.  (With nothing to inherit the call raises ValueError.)
C20_DirectoryChildInheritance ==
    (inherited.kind # "none" /\ inherited.is_dir) =>
        LET inh == DirInheritable(RawAces(acl.data))
        IN  IF inh = <<>> THEN inherited.kind = "ValueError"
            ELSE /\ inherited.kind = "acl"
                 /\ Len(inherited.data) = 8 + 20 * Len(inh)
                 /\ HasBit(be32toh(inherited.data, 0), 131072)
                 /\ be32toh(inherited.data, 1) = Len(inh)
                 /\ \A i \in 1 .. Len(inh) :
                       LET o == RawAce(inherited.data, i - 1)
                           p == inh[i]
                       IN  /\ o.ace_type = p.ace_type
                           /\ o.access_mask = p.access_mask
                           /\ o.who = p.who
                           /\ o.ace_iflag = p.ace_iflag
                           /\ o.ace_flags < 256
                           /\ FlagBits(o.ace_flags) =
                                 IF HasBit(p.ace_flags, 4)
                                 THEN (FlagBits(p.ace_flags) \ {1, 2, 4, 8}) \cup {128}
                                 ELSE (FlagBits(p.ace_flags) \ {8}) \cup {128}

\* A directory ACL of three ACEs: one that is not inheritable, one with
\* DIRECTORY_INHERIT and NO_PROPAGATE_INHERIT only, one with INHERIT_ONLY
\* and without NO_PROPAGATE_INHERIT; the child ACL has the last two
C20_Witness ==
    /\ inherited.kind = "acl"
    /\ inherited.is_dir
    /\ be32toh(acl.data, 1) = 3
    /\ be32toh(inherited.data, 1) = 2
    /\ FlagBits(RawAce(acl.data, 0).ace_flags) \cap {1, 2} = {}
    /\ FlagBits(RawAce(acl.data, 1).ace_flags) \cap {1, 2, 4, 8} = {2, 4}
    /\ FlagBits(RawAce(acl.data, 2).ace_flags) \cap {4, 8} = {8}
    /\ FlagBits(RawAce(inherited.data, 0).ace_flags) \cap {1, 2, 4, 8, 128} = {128}
    /\ {8, 128} \cap FlagBits(RawAce(inherited.data, 1).ace_flags) = {128}

\* The parent ACEs a file child inherits, in parent order
FileInheritable(s) ==
    LET T(r) == HasBit(r.ace_flags, 1) IN SelectSeq(s, T)

\* C21: generate_inherited_acl for a file child outputs, in parent order,
\* exactly the parent ACEs with FILE_INHERIT, each with the four inherit bits
\* stripped and INHERITED set; type, mask and who are unchanged.  (With
\* nothing to inherit the call raises ValueError.)
C21_FileChildInheritance ==
    (inherited.kind # "none" /\ ~inherited.is_dir) =>
        LET inh == FileInheritable(RawAces(acl.data))
        IN  IF inh = <<>> THEN inherited.kind = "ValueError"
            ELSE /\ inherited.kind = "acl"
                 /\ Len(inherited.data) = 8 + 20 * Len(inh)
                 /\ be32toh(inherited.data, 1) = Len(inh)
                 /\ \A i \in 1 .. Len(inh) :
                       LET o == RawAce(inherited.data, i - 1)
                           p == inh[i]
                       IN  /\ o.ace_type = p.ace_type
                           /\ o.access_mask = p.access_mask
                           /\ o.who = p.who
                           /\ o.ace_iflag = p.ace_iflag
                           /\ o.ace_flags < 256
                           /\ FlagBits(o.ace_flags) =
                                 (FlagBits(p.ace_flags) \ {1, 2, 4, 8}) \cup {128}

\* A parent of three ACEs: one with DIRECTORY_INHERIT only, one with
\* FILE_INHERIT, DIRECTORY_INHERIT and INHERIT_ONLY, one with FILE_INHERIT
\* and NO_PROPAGATE_INHERIT; the file child has the last two, without any
\* inherit bit
C21_Witness ==
    /\ inherited.kind = "acl"
    /\ ~inherited.is_dir
    /\ be32toh(acl.data, 1) = 3
    /\ be32toh(inherited.data, 1) = 2
    /\ FlagBits(RawAce(acl.data, 0).ace_flags) \cap {1, 2} = {2}
    /\ FlagBits(RawAce(acl.data, 1).ace_flags) \cap {1, 2, 4, 8} = {1, 2, 8}
    /\ FlagBits(RawAce(acl.data, 2).ace_flags) \cap {1, 2, 4} = {1, 4}
    /\ FlagBits(RawAce(inherited.data, 0).ace_flags) \cap {1, 2, 4, 8, 128} = {128}
    /\ FlagBits(RawAce(inherited.data, 1).ace_flags) \cap {1, 2, 4, 8, 128} = {128}

\* The ACEs a blob holds in full, in order
AcesHeld(data) ==
    IF Len(data) < 8 THEN <<>>
    ELSE [i \in 1 .. SlotsIn(data) |-> RawAce(data, i - 1)]

\* Some ACE of the blob has one of these flag bits
SomeAceHas(data, bits) ==
    \E i \in 1 .. Len(AcesHeld(data)) : FlagBits(AcesHeld(data)[i].ace_flags) \cap bits # {}

\* The blob has one of the defects the validator rejects whatever the target:
\* a DENY for a special principal, INHERIT_ONLY without FILE_INHERIT or
\* DIRECTORY_INHERIT
OtherDefect(data) ==
    \E i \in 1 .. Len(AcesHeld(data)) :
        LET a == AcesHeld(data)[i]
        IN  \/ a.ace_type = 1 /\ a.ace_iflag = 1
            \/ 8 \in FlagBits(a.ace_flags) /\ FlagBits(a.ace_flags) \cap {1, 2} = {}

\* C22: nfs4acl_valid rejects an ACL in which an ACE carries a propagation
\* bit unless the target is a directory, and without an fd the target counts
\* as a directory: such an ACL, with an inheritable ACE and no other defect,
\* is accepted for a directory and for no fd.
C22_PropagationNeedsDirectory ==
    valid.ret # "none" =>
        /\ (SomeAceHas(valid.data, {1, 2, 4, 8}) /\ valid.fd \notin {"dir", "none"}) =>
              valid.ret # "ok"
        /\ (SomeAceHas(valid.data, {1, 2, 4, 8}) /\ valid.fd = "file"
            /\ ~OtherDefect(valid.data)) => valid.ret = "ValueError"
        /\ (SomeAceHas(valid.data, {1, 2}) /\ valid.fd \in {"dir", "none"}
            /\ ~OtherDefect(valid.data)) => valid.ret = "ok"

\* An ACL of two ACEs, one of them with DIRECTORY_INHERIT and
\* NO_PROPAGATE_INHERIT, no DENY among them, was rejected for a regular file
C22_Witness ==
    /\ valid.fd = "file"
    /\ valid.ret = "ValueError"
    /\ Len(AcesHeld(valid.data)) = 2
    /\ ~OtherDefect(valid.data)
    /\ \E i \in 1 .. 2 : FlagBits(AcesHeld(valid.data)[i].ace_flags) \cap {1, 2, 4, 8} = {2, 4}
    /\ \E i \in 1 .. 2 : FlagBits(AcesHeld(valid.data)[i].ace_flags) \cap {1, 2, 4, 8} = {}

\* C23: nfs4acl_valid rejects every ACL offered for a directory target (no
\* fd included) that has no ACE with FILE_INHERIT or DIRECTORY_INHERIT.
C23_DirectoryNeedsInheritableAce ==
    (valid.ret # "none" /\ valid.fd \in {"dir", "none"}
     /\ ~SomeAceHas(valid.data, {1, 2})) => valid.ret = "ValueError"

\* The number of positions of s that hold x
Occurrences(s, x) == Cardinality({i \in 1 .. Len(s) : s[i] = x})

\* s and t hold the same ACEs, each as often as the other
SameAces(s, t) ==
    /\ Len(s) = Len(t)
    /\ \A i \in 1 .. Len(s) : Occurrences(s, s[i]) = Occurrences(t, s[i])

\* The entries of the list with this default flag
EntriesOf(s, d) == SelectSeq(s, LAMBDA a : a.default_ = d)

\* What from_aces was given comes back from the xattr bytes, ACE by ACE
NFS4RoundTrip ==
    acl.kind = "from_aces" =>
        /\ ~NFS4ACL_get_aces(acl.data).raises
        /\ SameAces(NFS4ACL_get_aces(acl.data).aces, aces_arg)

PosixRoundTrip ==
    /\ ~POSIXACL_get_aces(pacl).raises
    /\ ~POSIXACL_get_default_aces(pacl).raises
    /\ SameAces(POSIXACL_get_aces(pacl).aces, EntriesOf(paces_arg, FALSE))
    /\ SameAces(POSIXACL_get_default_aces(pacl).aces, EntriesOf(paces_arg, TRUE))

\* A USER_OBJ, GROUP_OBJ, MASK or OTHER entry has the id -1
PosixNormalForm(s) ==
    \A i \in 1 .. Len(s) : s[i].tag \in {1, 4, 16, 32} => s[i].id = -1

AscendingTagId(s) ==
    \A i \in 1 .. Len(s) - 1 :
        \/ s[i].tag < s[i + 1].tag
        \/ s[i].tag = s[i + 1].tag /\ s[i].id <= s[i + 1].id

\* The tag and perms of the entries, as a list
TagPerms(s) == [i \in 1 .. Len(s) |-> <<s[i].tag, s[i].perms>>]

\* C25: after POSIXACL.from_aces the entries given with default=False are in
\* the access xattr and those given with default=True in the default xattr
\* (which is absent when there are none), each xattr holds its entries in
\* ascending order of (tag, id), and the bytes are the version word followed
\* by one 8-byte record per entry, so that equal inputs give equal bytes.
C25_FromAcesSeparateSorted ==
    pacl.kind = "from_aces" =>
        LET a == POSIXACL_get_aces(pacl)
            d == POSIXACL_get_default_aces(pacl)
        IN  /\ ~a.raises /\ ~d.raises
            /\ SameAces(TagPerms(a.aces), TagPerms(EntriesOf(paces_arg, FALSE)))
            /\ SameAces(TagPerms(d.aces), TagPerms(EntriesOf(paces_arg, TRUE)))
            /\ \A i \in 1 .. Len(a.aces) : ~a.aces[i].default_
            /\ \A i \in 1 .. Len(d.aces) : d.aces[i].default_
            /\ AscendingTagId(a.aces)
            /\ AscendingTagId(d.aces)
            /\ pacl.default_none <=> EntriesOf(paces_arg, TRUE) = <<>>
            /\ Len(pacl.access_data) = 4 + 8 * Len(EntriesOf(paces_arg, FALSE))
            /\ SubSeq(pacl.access_data, 1, 4) = <<2, 0, 0, 0>>
            /\ ~pacl.default_none =>
                  /\ Len(pacl.default_data) = 4 + 8 * Len(EntriesOf(paces_arg, TRUE))
                  /\ SubSeq(pacl.default_data, 1, 4) = <<2, 0, 0, 0>>

\* from_aces of a list that names uid 1000 before uid 5 and has a default
\* entry too: the access xattr has uid 5 first, the default xattr one entry
C25_Witness ==
    /\ pacl.kind = "from_aces"
    /\ Len(paces_arg) = 3
    /\ \E i, j \in 1 .. 3 :
          /\ i < j
          /\ paces_arg[i].tag = 2 /\ paces_arg[i].id = 1000
          /\ paces_arg[j].tag = 2 /\ paces_arg[j].id = 5
    /\ Len(POSIXACL_get_aces(pacl).aces) = 2
    /\ POSIXACL_get_aces(pacl).aces[1].id = 5
    /\ Len(POSIXACL_get_default_aces(pacl).aces) = 1

\* C26: POSIX generate_inherited_acl of an ACL without a default ACL raises
\* ValueError; otherwise a directory child has the parent's default ACL as
\* its access ACL and as its default ACL, and a file child has the parent's
\* default ACL as its access ACL and no default ACL.
C26_PosixInheritance ==
    pinherited.kind # "none" =>
        IF pacl.default_none THEN pinherited.kind = "ValueError"
        ELSE /\ pinherited.kind = "acl"
             /\ pinherited.access_data = pacl.default_data
             /\ pinherited.is_dir =>
                   ~pinherited.default_none /\ pinherited.default_data = pacl.default_data
             /\ ~pinherited.is_dir => pinherited.default_none

\* A file child of a directory whose default ACL has three entries and
\* differs from its access ACL
C26_Witness ==
    /\ pinherited.kind = "acl"
    /\ ~pinherited.is_dir
    /\ pinherited.default_none
    /\ Len(pacl.default_data) = 4 + 8 * 3
    /\ pacl.access_data # pacl.default_data
    /\ pinherited.access_data = pacl.default_data

\* The number of entries of the list with this tag
TagCount(s, tag) == Cardinality({i \in 1 .. Len(s) : s[i].tag = tag})

\* The entries of one xattr obey the rules of POSIX ACL validation
WellFormedEntries(s) ==
    /\ TagCount(s, 1) = 1
    /\ TagCount(s, 4) = 1
    /\ TagCount(s, 32) = 1
    /\ \A i \in 1 .. Len(s) : s[i].tag \in {2, 8} => s[i].id # -1
    /\ TagCount(s, 2) + TagCount(s, 8) > 0 => TagCount(s, 16) = 1
    /\ TagCount(s, 16) <= 1

\* C27: POSIX ACL validation accepts only xattrs that have exactly one
\* USER_OBJ, one GROUP_OBJ and one OTHER entry, whose named USER and GROUP
\* entries all have an id other than -1, that have exactly one MASK when
\* they have a named entry, and never more than one MASK; this holds for the
\* access xattr and for the default xattr when there is one.
C27_PosixValidationRules ==
    pvalid.ret = "ok" =>
        /\ ~POSIXACL_get_aces(pacl).raises
        /\ WellFormedEntries(POSIXACL_get_aces(pacl).aces)
        /\ ~pacl.default_none =>
              /\ ~POSIXACL_get_default_aces(pacl).raises
              /\ WellFormedEntries(POSIXACL_get_default_aces(pacl).aces)

\* An ACL with a named user and a MASK in both xattrs, accepted for a
\* directory
C27_Witness ==
    /\ pvalid.ret = "ok"
    /\ pvalid.fd = "dir"
    /\ ~pacl.default_none
    /\ Len(POSIXACL_get_aces(pacl).aces) = 5
    /\ TagCount(POSIXACL_get_aces(pacl).aces, 2) = 1
    /\ TagCount(POSIXACL_get_default_aces(pacl).aces, 16) = 1

MinimalAccessAcl(self) ==
    /\ ~POSIXACL_get_aces(self).raises
    /\ Len(POSIXACL_get_aces(self).aces) = 3
    /\ TagCount(POSIXACL_get_aces(self).aces, 1) = 1
    /\ TagCount(POSIXACL_get_aces(self).aces, 4) = 1
    /\ TagCount(POSIXACL_get_aces(self).aces, 32) = 1

\* C29: POSIXACL.trivial is True for an ACL that has only USER_OBJ,
\* GROUP_OBJ and OTHER entries, no MASK and no named entry (and no default
\* ACL), such as the one from_aces builds from exactly those three entries.
C29_TrivialForMinimalAcl ==
    (pacl.kind = "from_aces" /\ MinimalAccessAcl(pacl) /\ pacl.default_none) =>
        POSIXACL_get_trivial(pacl)

\* C30: fgetacl asks for system.nfs4_acl_xdr first: an answer of data, of
\* size 0 or of ENODATA makes the result an NFSv4 ACL whatever the POSIX
\* xattrs would answer, empty under ENODATA; EOPNOTSUPP makes it go on to
\* the POSIX pair and the result is never an NFSv4 ACL; EOPNOTSUPP from
\* system.posix_acl_access as well is raised as OSError(EOPNOTSUPP); ENODATA
\* from it yields a POSIX ACL with an empty access ACL.
C30_FgetaclProbes ==
    acl_out.ret # "none" =>
        /\ xattr.nfs4 \in {"data", "empty", "ENODATA"} =>
              /\ acl_out.ret = "0"
              /\ acl_out.type = "ACLTYPE_NFS4"
              /\ acl_out.nfs4_data = "data" <=> xattr.nfs4 = "data"
        /\ xattr.nfs4 = "EOPNOTSUPP" => acl_out.type # "ACLTYPE_NFS4"
        /\ (xattr.nfs4 = "EOPNOTSUPP" /\ xattr.access = "EOPNOTSUPP") =>
              /\ acl_out.ret = "-1"
              /\ acl_out.exc = "OSError"
              /\ acl_out.errno = "EOPNOTSUPP"
        /\ (/\ xattr.nfs4 = "EOPNOTSUPP"
            /\ xattr.access = "ENODATA"
            /\ xattr.default_ \in {"ENODATA", "empty", "data"}) =>
              /\ acl_out.ret = "0"
              /\ acl_out.type = "ACLTYPE_POSIX"
              /\ acl_out.access_data = "NULL"
              /\ acl_out.default_data = "data" <=> xattr.default_ = "data"

\* A directory of a POSIX filesystem that has a default ACL and no access ACL
C30_Witness ==
    /\ xattr.nfs4 = "EOPNOTSUPP"
    /\ xattr.access = "ENODATA"
    /\ xattr.default_ = "data"
    /\ acl_out.ret = "0"
    /\ acl_out.type = "ACLTYPE_POSIX"
    /\ acl_out.access_data = "NULL"

\* C31: a POSIX ACL write sets the access xattr first and then sets the
\* default xattr to the ACL's default, or removes the default xattr when the
\* ACL has none; a removal that finds no default xattr (ENODATA) counts as
\* done.  When every call is carried out the fd has the new access xattr
\* and the new default xattr, or none.
C31_PosixWrite ==
    fsetacl_call.ret # "none" =>
        /\ fsetacl_call.calls[1] = <<"fsetxattr", "system.posix_acl_access">>
        /\ Len(fsetacl_call.calls) = 2 =>
              /\ store.access = "new"
              /\ fsetacl_call.calls[2] =
                    IF fsetacl_call.default_null
                    THEN <<"fremovexattr", "system.posix_acl_default">>
                    ELSE <<"fsetxattr", "system.posix_acl_default">>
        /\ (fsetacl_call.access = "ok" /\ fsetacl_call.default_ = "ok") =>
              /\ fsetacl_call.ret = "0"
              /\ Len(fsetacl_call.calls) = 2
              /\ store.access = "new"
              /\ store.default_ = IF fsetacl_call.default_null THEN "absent" ELSE "new"
        /\ fsetacl_call.ret = "0" =>
              fsetacl_call.access = "ok" /\ fsetacl_call.default_ = "ok"

\* An ACL without default is written to an fd that has no default xattr: the
\* removal meets ENODATA and the write succeeds
C31_Witness ==
    /\ fsetacl_call.ret = "0"
    /\ fsetacl_call.default_null
    /\ fsetacl_call.calls[2] = <<"fremovexattr", "system.posix_acl_default">>
    /\ store = [access |-> "new", default_ |-> "absent"]

\* The answers of an xattr probe or read that are failures the code does not
\* recover from by its documented rules: any errno but ENODATA, a failing
\* read, a signal whose handler raises (EOPNOTSUPP is one unless it answers
\* the NFS4 probe)
ProbeFailure(answer) == answer \in {"EOPNOTSUPP", "EIO", "readfail", "signal"}

\* C32: in fgetacl every failure of an xattr probe or read, other than
\* EOPNOTSUPP on the NFS4 probe and ENODATA, ends the call with an error
\* and never with an ACL value
C32_ProbeFailureIsError ==
    acl_out.ret # "none" =>
        /\ (ProbeFailure(xattr.nfs4) /\ xattr.nfs4 # "EOPNOTSUPP") => acl_out.ret = "-1"
        /\ (xattr.nfs4 = "EOPNOTSUPP" /\ ProbeFailure(xattr.access)) => acl_out.ret = "-1"
        /\ (xattr.nfs4 = "EOPNOTSUPP" /\ ~ProbeFailure(xattr.access)
              /\ ProbeFailure(xattr.default_)) => acl_out.ret = "-1"

\* The mount id of the mount fd that a handle is to be compared with: the
\* unique one for a handle recorded with a unique mount id
IdToMatch(self, mount_fd) ==
    IF self.unique_mount_id THEN mount_fd.unique ELSE mount_fd.legacy

C34_ReverseKept ==
    mount_args.reverse =>
        \A i \in 1..Len(requests) : BitAnd(requests[i], LISTMOUNT_REVERSE) = LISTMOUNT_REVERSE

\* The last step has returned with StopIteration
Stopped == pc = "idle" /\ result.kind = "StopIteration"

RECURSIVE Crosses(_)
\* The way from the root to n passes something that is no directory, or a
\* directory the caller skipped
Crosses(n) ==
    IF Parent(n) = Root THEN FALSE
    ELSE Kind(Parent(n)) # "dir" \/ Parent(n) \in skipped \/ Crosses(Parent(n))

\* The entries a complete iteration is to yield
Expected == {n \in Nodes \ {Root} : ~Crosses(n) /\ Yieldable(n, state.btime_cutoff)}

\* C35: on an unchanging tree, without kernel errors and callback failures,
\* a fresh iteration comes to StopIteration; it has then yielded exactly
\* once every entry that is reached from the root through directories that
\* were not skipped and that passes the btime filter, and nothing else; from
\* then on the stack is empty and every step ends with StopIteration
C35_FreshIterationCompletes ==
    /\ <>Stopped
    /\ [](Stopped =>
            /\ cur_depth = 0
            /\ \A n \in Nodes :
                  Cardinality({i \in 1 .. Len(history) : history[i].node = n})
                     = IF n \in Expected THEN 1 ELSE 0)
    /\ [](Stopped => [](cur_depth = 0 /\ (pc = "idle" => Stopped)))

\* An iteration with a cutoff in which a was skipped has stopped
C35_Witness ==
    /\ faults = 0
    /\ NoCallbackFailed
    /\ Stopped
    /\ skipped = {2}
    /\ state.btime_cutoff = 2
    /\ Len(history) = 3

\* C36: a directory is entered without being yielded only if its inode is
\* the cookie the snapshot holds for the depth at which it is entered
C36_SilentEntryNeedsCookie ==
    \A i \in 1 .. Len(trace) :
        trace[i].act = "silent_push" =>
            /\ trace[i].depth <= Len(snap)
            /\ snap[trace[i].depth].ino = Ino(trace[i].entry)

\* C37: whenever a step pops a frame because of skip(), the frame is that of
\* the directory most recently yielded to the caller
C37_SkipPopsLastYieldedDirectory ==
    \A i \in 1 .. Len(trace) :
        trace[i].act = "skip_pop" =>
            /\ trace[i].nyield >= 1
            /\ history[trace[i].nyield].isdir
            /\ history[trace[i].nyield].node = trace[i].dir

\* The descriptors of entries that are open: every open descriptor that is
\* not the stream of a frame on the stack
EntryFds == openFds \ {dir_stack[i].dirp.fd : i \in 1 .. Len(dir_stack)}

\* C38: while the iterator lives at most one entry fd is open besides the
\* directory streams on the stack, and it is the one last.fd holds
C38_AtMostOneEntryFd ==
    pc # "dead" =>
        /\ Cardinality(EntryFds) <= 1
        /\ \A fd \in EntryFds : fd = last.fd

\* Adjacent ACEs have non-decreasing keys 2*is_inherited + is_allow
InCanonicalOrder(s) ==
    \A i \in 1 .. Len(s) - 1 : CanonicalKey(s[i]) <= CanonicalKey(s[i + 1])

\* C39: generate_inherited_acl preserves canonical order: when the ACEs of
\* the parent are in canonical order, so are the ACEs of the generated ACL
C39_InheritedKeepsCanonicalOrder ==
    (inherited.kind = "acl" /\ InCanonicalOrder(AcesHeld(acl.data))) =>
        InCanonicalOrder(AcesHeld(inherited.data))

\* C40: when nfs4acl_valid accepts the parent for a directory, it accepts
\* the ACL that generate_inherited_acl(is_dir) makes of it for a target of
\* the generated kind: a directory when is_dir, a file otherwise
C40_InheritedIsValid ==
    (inherited.kind = "acl" /\ nfs4acl_valid("dir", acl.data) = "ok") =>
        nfs4acl_valid(IF inherited.is_dir THEN "dir" ELSE "file", inherited.data) = "ok"

=============================================================================
